---- MODULE Spec2Model ----
(***************************************************************************)
(* Model of the agentic reasoning layer of newsnow: the inference gateway  *)
(* (WorkerAI.generateReasoning / generateStructured / generateEmbeddings / *)
(* generateStructuredReasoning, BaseAgent.askAI), the RAG pipeline         *)
(* (RAGAgent.answerQuery, optimizeQuery, constructContext) and the         *)
(* agentic-query endpoint that calls it; and of the knowledge-consistency  *)
(* layer: BaseAgent.loadGlobalContext, reconcileTags, saveArticleAnalysis  *)
(* and the other writers of the tag table (ArticleAgent.createAndAssignTags *)
(* and the feedback endpoint).                                             *)
(*                                                                         *)
(* Strings the code inspects character by character (the user question,   *)
(* the optimizer's output) are sequences of one-character strings; the     *)
(* character "q" stands for a quote character (" or ').  Error messages    *)
(* are TLA+ strings built exactly as the code builds them.  A remote call  *)
(* that rejects, rejects with an Error object carrying a message, which is *)
(* what the Workers AI binding and the D1 client do.                       *)
(***************************************************************************)
EXTENDS Integers, Sequences, FiniteSets, TLC

VARIABLES
    pc,                \* position of the request being served
    via,               \* "endpoint" | "direct" | "gateway" | "none": how it was invoked
    defaultRetries,    \* WorkerAI.defaultRetries
    store,             \* ids of the article records present in D1
    userQuestion,      \* answerQuery argument
    retrievalLimit,    \* answerQuery argument
    gw,                \* the gateway operation in progress (or last returned)
    optimizedQuery,    \* local of answerQuery
    retrievedArticles, \* local of answerQuery: record ids of the references, rank order
    ctxIndex,          \* loop index i of constructContext (1-based)
    contextParts,      \* local of constructContext: record ids of the blocks built
    result,            \* the RAGResponse answerQuery returned
    http,              \* the endpoint's response
    stages,            \* history: pipeline stages entered, in order
    calls,             \* history: remote calls made by this request, per purpose
    searchCalls,       \* history: <<query, limit>> of every searchKnowledgeBase call
    tagTable,          \* D1 table article_tags: rows in id order
    tagMap,            \* D1 table article_tag_map: <<article_id, tag_id>> pairs
    articles,          \* D1 table articles: row of each article id
    r2Objects,         \* D1 table article_r2_objects: the rows, one per r2_key
    agent,             \* per call frame of an agent instance: the call in progress
                       \* and the instance's globalContext as the frame sees it
    durable,           \* the ArticleAgent Durable Object of one URL and its requests
    feedbackLog,       \* D1 table article_feedback: the rows in insertion order
    handlers,          \* the calls in progress of the feedback endpoint, of
                       \* receiveFeedback and of createAndAssignTags
    collectionItems    \* D1 table collection_items: <<collection_id, article_id>> pairs

ragVars == <<pc, via, defaultRetries, store, userQuestion, retrievalLimit, gw,
             optimizedQuery, retrievedArticles, ctxIndex, contextParts, result,
             http, stages, calls, searchCalls>>

kbVars == <<tagTable, tagMap, articles, r2Objects, agent>>

ingestVars == <<durable, feedbackLog, handlers, collectionItems>>

vars == <<ragVars, kbVars, ingestVars>>

(***************************************************************************)
(* Bounds of the model and constants of the program                        *)
(***************************************************************************)
MaxRetries == 1          \* explicit retry counts range over 0..MaxRetries
MaxArticleId == 2        \* record ids are 1..MaxArticleId
MaxRefs == 2             \* retrieval returns at most MaxRefs references
MaxTags == 3             \* article_tags holds at most MaxTags rows
MaxEvents == 2           \* article_feedback holds at most MaxEvents rows

DefaultRetryCount == 3   \* WorkerAI constructor / askAI default
BackoffBaseMs == 1000    \* setTimeout(resolve, 1000 * (attempt + 1))
DefaultLimit == 10       \* const { query, limit = 10 } = body
MinLimit == 1            \* limit < 1 is rejected by the endpoint
MaxLimit == 50           \* limit > 50 is rejected by the endpoint

ArticleIds == 1..MaxArticleId

Min(a, b) == IF a < b THEN a ELSE b

Last(s) == s[Len(s)]

(***************************************************************************)
(* Character strings                                                       *)
(***************************************************************************)
IsSpace(c) == c = " "
IsQuote(c) == c = "q"

RECURSIVE TrimStart(_)
TrimStart(s) ==
    IF Len(s) > 0 /\ IsSpace(Head(s)) THEN TrimStart(Tail(s)) ELSE s

RECURSIVE TrimEnd(_)
TrimEnd(s) ==
    IF Len(s) > 0 /\ IsSpace(s[Len(s)])
    THEN TrimEnd(SubSeq(s, 1, Len(s) - 1)) ELSE s

\* String.prototype.trim
Trim(s) == TrimEnd(TrimStart(s))

\* s.replace(/^["']|["']$/g, ""): one quote character is removed at the start
\* and one at the end of what is left
StripQuotes(s) ==
    LET s1 == IF Len(s) > 0 /\ IsQuote(Head(s)) THEN Tail(s) ELSE s
    IN  IF Len(s1) > 0 /\ IsQuote(s1[Len(s1)])
        THEN SubSeq(s1, 1, Len(s1) - 1) ELSE s1

(***************************************************************************)
(* Values crossing the remote boundary                                     *)
(***************************************************************************)
\* A JSON text and the value JSON.parse gives for it.  json is the shape of
\* the text: "invalid" does not parse, "nobrace" is prose without braces,
\* the others are the type of the parsed value.  For an object the other
\* fields give, per schema property, the JavaScript type found there and
\* its value.
Payload(json, strs, confType, conf, citedType, cited, follow) ==
    [json |-> json,
     thinking_process |-> strs,       \* typeof: "string" | "undefined" | "number"
     answer_markdown |-> strs,
     confidenceType |-> confType,     \* "integer" | "float" | "string" | "undefined"
     confidence_score |-> conf,
     citedType |-> citedType,         \* "array" | "undefined" | "string"
     cited_article_ids |-> cited,
     follow_up_suggestions |-> follow] \* number of strings in the array, -1: absent

NoPayload == Payload("none", "undefined", "undefined", 0, "undefined", <<>>, -1)

Scalar(json) == Payload(json, "undefined", "undefined", 0, "undefined", <<>>, -1)

Answer(conf, cited, follow) ==
    Payload("object", "string", "integer", conf, "array", cited, follow)

\* The canned answer of the zero-result case (human-feedback.ts 332-342)
EmptyResultAnswer == Answer(0, <<>>, 3)

\* What the structuring model may send back
StructuredPayloads ==
    { Answer(85, <<>>, 3), Answer(85, <<1>>, 3), Answer(85, <<2, 1>>, 3),
      Answer(150, <<1>>, 3), Answer(85, <<1>>, 2),
      Payload("object", "undefined", "undefined", 0, "undefined", <<>>, -1),
      Payload("object", "string", "string", 0, "string", <<>>, 3),
      Scalar("null"), Scalar("number"), Scalar("array"), Scalar("invalid") }

\* What the chat model behind askAI may send back
AskPayloads ==
    { Answer(85, <<1>>, 3), Scalar("object"), Scalar("nobrace"), Scalar("invalid") }

ReasoningTexts ==
    { <<"a">>, <<" ", "a", " ">>, <<"q", "a", "q">>, <<" ">>, <<"q", "q">> }

Questions == { <<"a", "b">>, <<" ", "b", "q">> }

ErrorMessages == { "upstream timeout", "model overloaded" }

EmbeddingVector == <<1, 2>>

\* One remote call's outcome: the promise rejects ("throw"), or resolves with
\* the response {} that has no payload field ("empty"), or with a response
\* whose payload field is there and empty, { response: "" } ("blank"), or
\* resolves with a usable response ("response").
Outcome(kind, msg, text, payload) ==
    [kind |-> kind, msg |-> msg, text |-> text, payload |-> payload]

Throws == { Outcome("throw", m, <<>>, NoPayload) : m \in ErrorMessages }

EmptyResponse == Outcome("empty", "", <<>>, NoPayload)

BlankResponse == Outcome("blank", "", <<>>, NoPayload)

RemoteOutcomes(op) ==
    Throws \cup {EmptyResponse, BlankResponse} \cup
    CASE op = "reason"    -> { Outcome("response", "", t, NoPayload) : t \in ReasoningTexts }
      [] op = "structure" -> { Outcome("response", "", <<>>, p) : p \in StructuredPayloads }
      [] op = "embed"     -> { Outcome("response", "", <<>>, NoPayload) }
      [] op = "askAI"     -> { Outcome("response", "", <<"a">>, p) : p \in AskPayloads }

(***************************************************************************)
(* Inference gateway: WorkerAI and BaseAgent.askAI                         *)
(***************************************************************************)
\* new WorkerAI(ai, options): this.defaultRetries = options.retries || 3
\* (an absent count is given as 0, which JavaScript's || treats alike)
WorkerAIDefaultRetries(optionsRetries) ==
    IF optionsRetries = 0 THEN DefaultRetryCount ELSE optionsRetries

NoOutcome == Outcome("none", "", <<>>, NoPayload)

GwIdle ==
    [op |-> "none", caller |-> "none", schema |-> FALSE,
     retriesGiven |-> FALSE, maxRetries |-> 0, attempt |-> 0, status |-> "idle",
     success |-> FALSE, text |-> <<>>, data |-> NoPayload, error |-> "",
     lastError |-> "",
     \* history, kept for the properties only
     remoteCalls |-> 0, lastOutcome |-> NoOutcome, waits |-> <<>>]

ModelLabel(op) ==
    CASE op = "reason" -> "Reasoning"
      [] op = "structure" -> "Structured"
      [] op = "embed" -> "Embedding"
      [] OTHER -> "AI"

\* The return after the for loop, reached when the loop body never ran
LoopFellThrough(g) ==
    [g EXCEPT !.status = "returned", !.success = FALSE,
              !.error = IF g.op = "askAI"
                        THEN (IF g.lastError # "" THEN g.lastError
                              ELSE "AI request failed after all retries")
                        ELSE ModelLabel(g.op) \o " model failed unexpectedly"]

\* Mutant of MaxRetriesOf: the structuring loop is given one attempt more
MaxRetriesOfOneMoreToStructure(op, given, retries, workerDefault) ==
    IF given THEN retries
    ELSE IF op = "askAI" THEN DefaultRetryCount
    ELSE IF op = "structure" THEN workerDefault + 1
    ELSE workerDefault

\* const maxRetries = retries ?? this.defaultRetries, and askAI's
\* destructuring default retries = 3
MaxRetriesOf(op, given, retries, workerDefault) ==
    IF given THEN retries
    ELSE IF op = "askAI" THEN DefaultRetryCount
    ELSE workerDefault

\* Entry of a gateway operation: attempt = 0 and the first loop test
GatewayEnter(op, schema, given, retries, workerDefault, caller) ==
    LET g == [GwIdle EXCEPT !.op = op, !.caller = caller, !.schema = schema,
                            !.retriesGiven = given,
                            !.maxRetries = MaxRetriesOf(op, given, retries, workerDefault),
                            !.status = "running"]
    IN  IF 0 < g.maxRetries THEN g ELSE LoopFellThrough(g)

\* Mutant of ReturnSuccess: the operation never returns its result
ReturnSuccessNeverReturns(g, text, data) ==
    [g EXCEPT !.status = "pending", !.text = text, !.data = data]

\* return { success: true, data }
ReturnSuccess(g, text, data) ==
    [g EXCEPT !.status = "returned", !.success = TRUE, !.text = text, !.data = data]

\* Mutant of CatchAndRetry: the back-off is taken after the last attempt too
CatchAndRetryAlwaysWaits(g, errorMessage) ==
    IF g.attempt < g.maxRetries - 1
    THEN [g EXCEPT !.attempt = @ + 1,
                   !.waits = Append(@, BackoffBaseMs * (g.attempt + 1))]
    ELSE [g EXCEPT !.status = "returned", !.success = FALSE,
                   !.waits = Append(@, BackoffBaseMs * (g.attempt + 1)),
                   !.error = ModelLabel(g.op) \o " model failed after "
                             \o ToString(g.maxRetries) \o " attempts: " \o errorMessage]

\* Mutant of CatchAndRetry: the test for the last attempt is off by one
CatchAndRetryOnceMore(g, errorMessage) ==
    IF g.attempt < g.maxRetries
    THEN [g EXCEPT !.attempt = @ + 1,
                   !.waits = Append(@, BackoffBaseMs * (g.attempt + 1))]
    ELSE [g EXCEPT !.status = "returned", !.success = FALSE,
                   !.error = ModelLabel(g.op) \o " model failed after "
                             \o ToString(g.maxRetries) \o " attempts: " \o errorMessage]

\* The catch block of the three WorkerAI loops: back off and retry, or
\* return the failure once attempt = maxRetries - 1
CatchAndRetry(g, errorMessage) ==
    IF g.attempt < g.maxRetries - 1
    THEN [g EXCEPT !.attempt = @ + 1,
                   !.waits = Append(@, BackoffBaseMs * (g.attempt + 1))]
    ELSE [g EXCEPT !.status = "returned", !.success = FALSE,
                   !.error = ModelLabel(g.op) \o " model failed after "
                             \o ToString(g.maxRetries) \o " attempts: " \o errorMessage]

\* JSON.parse(text) throws a SyntaxError for a text that is not JSON
JsonParseFails(p) == p.json \in {"invalid", "nobrace"}
SyntaxErrorMessage == "Unexpected token in JSON"

\* One iteration of generateReasoning's loop on remote outcome o
generateReasoning(g, o) ==
    IF o.kind = "throw" THEN CatchAndRetry(g, o.msg)
    ELSE IF o.kind \in {"empty", "blank"} \/ o.text = <<>>
    THEN CatchAndRetry(g, "Empty response from reasoning model")
    ELSE ReturnSuccess(g, o.text, NoPayload)

\* One iteration of generateStructured's loop on remote outcome o
generateStructured(g, o) ==
    IF o.kind = "throw" THEN CatchAndRetry(g, o.msg)
    ELSE IF o.kind \in {"empty", "blank"}
    THEN CatchAndRetry(g, "Empty response from structured model")
    ELSE IF JsonParseFails(o.payload) THEN CatchAndRetry(g, SyntaxErrorMessage)
    ELSE ReturnSuccess(g, <<>>, o.payload)

\* One iteration of generateEmbeddings' loop on remote outcome o
generateEmbeddings(g, o) ==
    IF o.kind = "throw" THEN CatchAndRetry(g, o.msg)
    ELSE IF o.kind \in {"empty", "blank"}
    THEN CatchAndRetry(g, "Empty response from embedding model")
    ELSE ReturnSuccess(g, <<>>, NoPayload)

\* Mutant of AskAIRetry: lastError keeps the first error it was given
AskAIRetryKeepsFirstError(g, errorMessage) ==
    LET g1 == [g EXCEPT !.lastError = IF @ = "" THEN errorMessage ELSE @,
                        !.waits = IF g.attempt < g.maxRetries - 1
                                  THEN Append(@, BackoffBaseMs * (g.attempt + 1))
                                  ELSE @,
                        !.attempt = @ + 1]
    IN  IF g1.attempt < g1.maxRetries THEN g1 ELSE LoopFellThrough(g1)

\* askAI: lastError = error, wait unless this was the last attempt, and go
\* round the loop; after the loop, return the failure
AskAIRetry(g, errorMessage) ==
    LET g1 == [g EXCEPT !.lastError = errorMessage,
                        !.waits = IF g.attempt < g.maxRetries - 1
                                  THEN Append(@, BackoffBaseMs * (g.attempt + 1))
                                  ELSE @,
                        !.attempt = @ + 1]
    IN  IF g1.attempt < g1.maxRetries THEN g1 ELSE LoopFellThrough(g1)

\* JSON.stringify of a response that is an object without fields
StringifiedEmptyObject == <<"{", "}">>

\* JSON.stringify({ response: "" }), with q for the double quote
StringifiedBlankResponse ==
    <<"{", "q", "r", "e", "s", "p", "o", "n", "s", "e", "q", ":", "q", "q", "}">>

\* One iteration of askAI's loop on remote outcome o.  A response whose
\* response field is absent or empty is stringified (response.response ||
\* JSON.stringify(response)), which gives the JSON text of that response
\* object: that text is what is matched and parsed, and what is returned as
\* the raw response (and as the data when no schema is given).  Parsed, it
\* is an object with none of the properties of the answer.
askAI(g, o) ==
    IF o.kind = "throw" THEN AskAIRetry(g, o.msg)
    ELSE LET stringified == o.kind \in {"empty", "blank"}
             responseText == IF o.kind = "empty" THEN StringifiedEmptyObject
                             ELSE IF o.kind = "blank" THEN StringifiedBlankResponse
                             ELSE o.text
             parsed == IF stringified THEN Scalar("object") ELSE o.payload
         IN  IF ~g.schema THEN ReturnSuccess(g, responseText, NoPayload)
             ELSE IF parsed.json = "nobrace"
             THEN AskAIRetry(g, "No JSON found in AI response")
             ELSE IF JsonParseFails(parsed) THEN AskAIRetry(g, SyntaxErrorMessage)
             ELSE ReturnSuccess(g, responseText, parsed)

\* The gateway operation g.op taking one loop iteration
GatewayIteration(g, o) ==
    LET g1 == [g EXCEPT !.remoteCalls = @ + 1, !.lastOutcome = o]
    IN  CASE g.op = "reason"    -> generateReasoning(g1, o)
          [] g.op = "structure" -> generateStructured(g1, o)
          [] g.op = "embed"     -> generateEmbeddings(g1, o)
          [] g.op = "askAI"     -> askAI(g1, o)

(***************************************************************************)
(* RAG pipeline: RAGAgent.answerQuery                                      *)
(***************************************************************************)
NoResult ==
    [returned |-> FALSE, threw |-> FALSE, success |-> FALSE, hasData |-> FALSE,
     data |-> NoPayload, hasRetrieved |-> FALSE, retrieved_articles |-> <<>>,
     error |-> ""]

\* Mutant of QueryFailed: the catch block lets the error go on to the caller
QueryFailedRethrows(message) ==
    [NoResult EXCEPT !.threw = TRUE]

\* The catch block of answerQuery: { success: false, error: error.message }
QueryFailed(message) ==
    [NoResult EXCEPT !.returned = TRUE, !.error = message]

\* The early return of the zero-result case
EmptyResult ==
    [NoResult EXCEPT !.returned = TRUE, !.success = TRUE, !.hasData = TRUE,
                     !.data = EmptyResultAnswer, !.hasRetrieved = TRUE]

\* return { success: true, data: aiResult.data, retrieved_articles }
QuerySucceeded(data, retrieved) ==
    [NoResult EXCEPT !.returned = TRUE, !.success = TRUE, !.hasData = TRUE,
                     !.data = data, !.hasRetrieved = TRUE,
                     !.retrieved_articles = retrieved]

\* Mutant of optimizeQuery: the fallback is cleaned up like a model output
optimizeQueryCleansFallback(g, question) ==
    IF g.success /\ g.text # <<>> THEN StripQuotes(Trim(g.text))
    ELSE StripQuotes(Trim(question))

\* optimizeQuery once generateReasoning has returned g
optimizeQuery(g, question) ==
    IF g.success /\ g.text # <<>> THEN StripQuotes(Trim(g.text)) ELSE question

\* JavaScript truthiness of a parsed JSON value (numbers here are non-zero)
Truthy(p) == p.json \in {"number", "array", "object"}

\* aiResult.data.cited_article_ids.length throws a TypeError when the
\* property is undefined
CitedLengthThrows(p) == p.json # "object" \/ p.citedType = "undefined"
TypeErrorMessage == "Cannot read properties of undefined (reading 'length')"

\* Mutant of ReasoningStageFailed: the result of step 1 is not tested
ReasoningStageUnchecked(g) == FALSE

\* generateStructuredReasoning, step 1 done: the test before step 2
ReasoningStageFailed(g) == ~g.success \/ g.text = <<>>

\* generateStructuredReasoning's return value once it is decided: after a
\* failed reasoning stage (g.op = "reason") or after structuring returned
generateStructuredReasoning(g) ==
    IF g.op = "reason"
    THEN [success |-> FALSE, data |-> NoPayload,
          error |-> "Reasoning stage failed: " \o g.error]
    ELSE IF ~g.success
    THEN [success |-> FALSE, data |-> NoPayload,
          error |-> "Structured stage failed: " \o g.error]
    ELSE [success |-> TRUE, data |-> g.data, error |-> ""]

\* answerQuery from the return of generateStructuredReasoning to its own return
answerQueryReturn(aiResult, retrieved) ==
    IF ~aiResult.success \/ ~Truthy(aiResult.data)
    THEN QueryFailed(IF aiResult.error # "" THEN aiResult.error
                     ELSE "AI reasoning failed")
    ELSE IF CitedLengthThrows(aiResult.data) THEN QueryFailed(TypeErrorMessage)
    ELSE QuerySucceeded(aiResult.data, retrieved)

StoreErrorMessage == "D1_ERROR: storage unavailable"
VectorErrorMessage == "VECTOR_QUERY_ERROR: index unavailable"

\* History of the remote calls of one request.  inference: some inference
\* call was made; reasoning, structuring: calls made by the synthesis;
\* optimized, reasoned, structured: a call of that stage came back usable;
\* search: how searchKnowledgeBase ended; storeThrew: a store read raised
NoCalls ==
    [inference |-> FALSE, reasoning |-> 0, structuring |-> 0,
     optimized |-> FALSE, reasoned |-> FALSE, structured |-> FALSE,
     search |-> "none", storeThrew |-> FALSE]

NoHttp == [sent |-> FALSE, success |-> FALSE, error |-> "", answer |-> NoPayload,
           retrieval_count |-> 0]

\* Sequences of distinct record ids, at most n long: what the index returns
RefSeqs(n) ==
    { r \in UNION { [1..k -> ArticleIds] : k \in 0..n } :
        \A i, j \in 1..Len(r) : i # j => r[i] # r[j] }

(***************************************************************************)
(* Knowledge base: tag registry, article records, agent sessions           *)
(*                                                                         *)
(* Tag names are sequences of one-character strings over "a", "A", "b"     *)
(* and " ".  SQLite compares the UNIQUE column article_tags.name byte by   *)
(* byte, so "a" and "A" are different names to the store.                  *)
(***************************************************************************)
Agents == {"s1", "s2"}

\* String.prototype.toLowerCase on the alphabet of the model
Lower(c) == IF c = "A" THEN "a" ELSE IF c = "B" THEN "b" ELSE c
toLowerCase(s) == [k \in 1..Len(s) |-> Lower(s[k])]

\* const normalizedTag = suggestedTag.trim().toLowerCase()
normalizedTag(suggestedTag) == toLowerCase(Trim(suggestedTag))

\* Names the other writers are given and the batches reconcileTags is given
TagNames == { <<"a">>, <<"A">> }
TagBatches ==
    { <<<<"a">>>>, <<<<"A">>, <<" ", "a">>>>, <<<<" ", "a">>, <<"A">>>>,
      <<<<"b">>, <<"a">>, <<"b">>>> }

\* A row of article_tags
TagRow(id, name, is_active) == [id |-> id, name |-> name, is_active |-> is_active]

\* Tag tables the store may hold when the agents start
InitialTagTables ==
    { <<>>, <<TagRow(1, <<"A">>, 1)>>, <<TagRow(1, <<"a">>, 0)>> }

\* INSERT INTO article_tags (name, is_active, created_at) VALUES (?, 1, ?):
\* AUTOINCREMENT gives the next id; rows are never deleted
InsertTag(table, name) == Append(table, TagRow(Len(table) + 1, name, 1))

\* name TEXT NOT NULL UNIQUE: the insert raises when the exact name is there
UniqueViolation(table, name) == \E k \in 1..Len(table) : table[k].name = name

\* SELECT id FROM article_tags WHERE name = ? LIMIT 1 (0: no row)
SelectTagByName(table, name) ==
    IF UniqueViolation(table, name)
    THEN (CHOOSE k \in 1..Len(table) : table[k].name = name)
    ELSE 0

\* the articles of the model and the columns saveArticleAnalysis may write
KbArticleIds == {1}
ArticleFields ==
    {"title", "description", "author", "published_date", "time_roi", "ranking"}

\* COUNT(atm.article_id) of the tag registry query
usage_count(id, map) == Cardinality({ a \in KbArticleIds : <<a, id>> \in map })

\* The tag registry query of loadGlobalContext: the active tags ordered by
\* usage_count DESC, ties in any order
RegistryOrders(table, map) ==
    LET act == SelectSeq(table, LAMBDA r : r.is_active = 1)
        n == Len(act)
        orders == { q \in [1..n -> 1..n] :
                      /\ \A x, y \in 1..n : x # y => q[x] # q[y]
                      /\ \A x, y \in 1..n :
                            x < y => usage_count(act[q[x]].id, map)
                                        >= usage_count(act[q[y]].id, map) }
    IN  { [k \in 1..n |-> [id |-> act[q[k]].id, name |-> act[q[k]].name]] :
            q \in orders }

\* this.globalContext.tagRegistry.find(tag => tag.name.toLowerCase() ===
\* normalizedTag): the index of the first match, 0 when there is none
existingTag(tagRegistry, normalized) ==
    LET hits == { k \in 1..Len(tagRegistry) :
                    toLowerCase(tagRegistry[k].name) = normalized }
    IN  IF hits = {} THEN 0 ELSE CHOOSE k \in hits : \A h \in hits : k <= h

\* A bound argument of the UPDATE: articleData.x || null
OrNull(v) == IF v \in {"undefined", "null", "falsy"} THEN "NULL" ELSE v

\* SQL COALESCE(a, b)
COALESCE(a, b) == IF a # "NULL" THEN a ELSE b

\* ranking = COALESCE(?, ranking) bound to articleData.ranking || null: a
\* ranking that is undefined, null or 0 (all given as 0) binds NULL
CoalesceRanking(ranking, stored) == IF ranking = 0 THEN stored ELSE ranking

\* UPDATE articles SET title = COALESCE(?, title), ..., status = ? WHERE id = ?
UpdateArticle(row, data) ==
    [f \in ArticleFields \cup {"status"} |->
        IF f = "status" THEN data.status
        ELSE IF f = "ranking" THEN CoalesceRanking(data.fields[f], row[f])
        ELSE COALESCE(OrNull(data.fields[f]), row[f])]

\* rankings of the rows and of the analyses of the model
StoredRanking == 40
GivenRanking == 77

\* Article rows in the store when the agents start: the text columns hold
\* v, the ranking a score (its column default 0 in a row of NULLs)
StoredRow(v) == [f \in ArticleFields \cup {"status"} |->
                    IF f = "status" THEN "unread"
                    ELSE IF f = "ranking"
                    THEN (IF v = "NULL" THEN 0 ELSE StoredRanking)
                    ELSE v]
InitialArticles ==
    { [a \in KbArticleIds |-> StoredRow("old")],
      [a \in KbArticleIds |-> StoredRow("NULL")],
      [a \in KbArticleIds |-> [StoredRow("old") EXCEPT !["author"] = "NULL"]] }

\* ArticleData values given to saveArticleAnalysis: the columns in S are
\* supplied, the others are undefined, null or falsy ("" or 0)
ArticleFieldInputs ==
    { [f \in ArticleFields |->
          IF f = "ranking" THEN (IF f \in S THEN GivenRanking ELSE 0)
          ELSE IF f \in S THEN "new" ELSE v] :
        S \in { {}, {"title"}, ArticleFields }, v \in {"undefined", "null", "falsy"} }

ArticleData(id, fields, status, tags) ==
    [id |-> id, fields |-> fields, status |-> status, tags |-> tags]

\* An ArticleData with no column set
NoFields == [f \in ArticleFields |-> IF f = "ranking" THEN 0 ELSE "undefined"]

NoArticleData == ArticleData(0, NoFields, "unread", <<>>)

\* The r2Keys argument of saveArticleAnalysis; "" is a key that is not given
R2Keys(pdfKey, markdownKey, jsonKey) ==
    [pdfKey |-> pdfKey, markdownKey |-> markdownKey, jsonKey |-> jsonKey]

NoR2Keys == R2Keys("", "", "")

\* A row of article_r2_objects
R2Row(article_id, r2_key, file_type) ==
    [article_id |-> article_id, r2_key |-> r2_key, file_type |-> file_type]

\* r2_key TEXT NOT NULL UNIQUE: the insert raises when the key is there
R2KeyTaken(rows, r2_key) == \E row \in rows : row.r2_key = r2_key

\* The three INSERTs of saveArticleAnalysis, in the order of the code: the
\* key of the k-th and the file_type it is stored with
R2KeyAt(keys, k) ==
    CASE k = 1 -> keys.pdfKey [] k = 2 -> keys.markdownKey [] OTHER -> keys.jsonKey
R2FileType(k) == CASE k = 1 -> "pdf" [] k = 2 -> "md" [] OTHER -> "json"

\* The first INSERT at or after the k-th whose key is given, 0 for none
NextR2(keys, k) ==
    LET given == { j \in k..3 : R2KeyAt(keys, j) # "" }
    IN  IF given = {} THEN 0 ELSE CHOOSE j \in given : \A h \in given : j <= h

R2Key == "articles/1/a.pdf"

\* The tags and r2Keys saveArticleAnalysis is called with: nothing, tags,
\* a markdown key alone, one key for two references, three keys with tags
SaveInputs ==
    { [tags |-> <<>>, r2Keys |-> NoR2Keys],
      [tags |-> <<<<" ", "a">>, <<"A">>>>, r2Keys |-> NoR2Keys],
      [tags |-> <<>>, r2Keys |-> R2Keys("", R2Key, "")],
      [tags |-> <<>>, r2Keys |-> R2Keys(R2Key, R2Key, "")],
      [tags |-> <<<<" ", "a">>, <<"A">>>>,
       r2Keys |-> R2Keys(R2Key, "articles/1/a.md", "articles/1/a.json")] }

\* article.ranking || 50
DefaultRanking == 50
\* confidence values are tenths: 0.7 and the placeholder 0.8
ReviewThreshold == 7
PlaceholderConfidence == 8

\* No row read yet
NoArticle == [ranking |-> 0, time_roi |-> "NULL", status |-> "NULL"]
\* Rows of the articles table with a numeric ranking (0 is the column default)
ScoredRow(ranking, time_roi, status) ==
    [f \in ArticleFields \cup {"status"} |->
        CASE f = "ranking" -> ranking
          [] f = "time_roi" -> time_roi
          [] f = "status" -> status
          [] OTHER -> "old"]
\* INSERT INTO articles (url, status, ...) VALUES (?, 'processing', ...):
\* the other columns are NULL, ranking has its default 0
NewArticleRow == [StoredRow("NULL") EXCEPT !["status"] = "processing"]

\* A row of article_feedback; feedback_data is the JSON of the object the
\* handler was given: the request body, a FeedbackData or a UserFeedback.
\* Of that text the row of the model keeps whose keys it has and the score.
FeedbackRow(article_id, feedback_type, shape, score) ==
    [article_id |-> article_id, feedback_type |-> feedback_type,
     feedback_data |-> [shape |-> shape, score |-> score]]

\* The body of a feedback request and the argument of receiveFeedback (a
\* FeedbackData): score 0 is no score, tags <<>> no tags or an empty array,
\* collection_id 0 no collection
FeedbackData(article_id, feedback_type, score, tags, collection_id) ==
    [article_id |-> article_id, feedback_type |-> feedback_type, score |-> score,
     tags |-> tags, collection_id |-> collection_id]

NoFeedbackData == FeedbackData(0, "none", 0, <<>>, 0)

\* The argument of processFeedback: manualRanking is <<>> when the key is
\* undefined and <<n>> when n is given (null counts as 0 in the arithmetic
\* of the code), tags <<>> none, collectionId 0 none
UserFeedback(articleId, feedbackType, manualRanking, tags, collectionId) ==
    [articleId |-> articleId, feedbackType |-> feedbackType,
     manualRanking |-> manualRanking, tags |-> tags, collectionId |-> collectionId]

NoUserFeedback == UserFeedback(0, "none", <<>>, <<>>, 0)

\* What askAI may return to performStricterAnalysis: a failure, or the
\* parsed JSON of the model's re-evaluation
NoAIResponse == [success |-> FALSE, ranking |-> 0, time_roi |-> "", confidence |-> 0]
AIResponses ==
    {NoAIResponse} \cup
    { [success |-> TRUE, ranking |-> r, time_roi |-> "Low ROI", confidence |-> c] :
        r \in {60, 95}, c \in {5, 9} }
\* x || fallback for a number and for a label
OrRanking(ranking) == IF ranking = 0 THEN DefaultRanking ELSE ranking
OrUnknown(time_roi) == IF time_roi \in {"NULL", ""} THEN "Unknown" ELSE time_roi
\* performStricterAnalysis: the response of askAI is not used, the article's
\* own ranking and label come back with confidence 0.8
performStricterAnalysis(article, response) ==
    [ranking |-> OrRanking(article["ranking"]),
     time_roi |-> OrUnknown(article["time_roi"]),
     confidence |-> PlaceholderConfidence]
\* Mutant of shouldDowngrade: every re-evaluation downgrades
shouldDowngradeUnconditional(newRanking, ranking) == TRUE
\* Mutant of shouldDowngrade: an equal ranking downgrades too
shouldDowngradeOrEqual(newRanking, ranking) == newRanking <= OrRanking(ranking)
\* shouldDowngrade: reAnalysis.ranking < (article.ranking || 50)
shouldDowngrade(newRanking, ranking) == newRanking < OrRanking(ranking)
\* flagForHumanReview: reAnalysis.confidence < 0.7
flagForHumanReview(confidence) == confidence < ReviewThreshold
\* The ReEvaluationResult reEvaluateArticle builds
ReEvaluationResult(article, reAnalysis) ==
    [originalRanking |-> OrRanking(article["ranking"]),
     newRanking |-> reAnalysis.ranking,
     originalTimeROI |-> OrUnknown(article["time_roi"]),
     newTimeROI |-> reAnalysis.time_roi,
     confidence |-> reAnalysis.confidence,
     shouldDowngrade |-> shouldDowngrade(reAnalysis.ranking, article["ranking"]),
     flagForHumanReview |-> flagForHumanReview(reAnalysis.confidence)]
NoReEvaluation == ReEvaluationResult(NoArticle, [ranking |-> DefaultRanking,
                      time_roi |-> "Unknown", confidence |-> PlaceholderConfidence])
\* applyDowngrade: saveArticleAnalysis({ id, ranking: newRanking, time_roi:
\* newTimeROI, status: "unread" }), whose UPDATE COALESCEs both columns
applyDowngrade(row, r) ==
    [row EXCEPT !["ranking"] = IF r.newRanking = 0 THEN @ ELSE r.newRanking,
                !["time_roi"] = IF r.newTimeROI = "" THEN @ ELSE r.newTimeROI,
                !["status"] = "unread"]

\* context.feedbackPatterns, the counters buildStricterCriteria reads and
\* one it does not; a context that is not loaded has them at 0
FeedbackPattern(totalArticles, upvotedArticles, downvotedArticles) ==
    [totalArticles |-> totalArticles, upvotedArticles |-> upvotedArticles,
     downvotedArticles |-> downvotedArticles]

NoCriteria ==
    [minimumDepth |-> 0, maximumGenericScore |-> 0,
     requiresOriginalInsight |-> FALSE, checkForClickbait |-> FALSE]

\* upvoteRate > num / 10, where upvoteRate is upvotedArticles /
\* totalArticles, or 0.3 when totalArticles is 0.  The quotient of two
\* counters equals the literal num / 10 as a double exactly when the
\* fractions are equal, so the comparison is made on the cross products.
upvoteRateAtLeast(feedbackPatterns, num) ==
    IF feedbackPatterns.totalArticles > 0
    THEN feedbackPatterns.upvotedArticles * 10 >= num * feedbackPatterns.totalArticles
    ELSE 3 >= num

upvoteRateExceeds(feedbackPatterns, num) ==
    IF feedbackPatterns.totalArticles > 0
    THEN feedbackPatterns.upvotedArticles * 10 > num * feedbackPatterns.totalArticles
    ELSE 3 > num

\* Mutant of buildStricterCriteria: the thresholds are inclusive
buildStricterCriteriaInclusive(feedbackPatterns) ==
    [minimumDepth |-> IF upvoteRateAtLeast(feedbackPatterns, 5) THEN 80 ELSE 60,
     maximumGenericScore |-> 40,
     requiresOriginalInsight |-> upvoteRateAtLeast(feedbackPatterns, 4),
     checkForClickbait |-> TRUE]

\* buildStricterCriteria(feedbackPatterns)
buildStricterCriteria(feedbackPatterns) ==
    [minimumDepth |-> IF upvoteRateExceeds(feedbackPatterns, 5) THEN 80 ELSE 60,
     maximumGenericScore |-> 40,
     requiresOriginalInsight |-> upvoteRateExceeds(feedbackPatterns, 4),
     checkForClickbait |-> TRUE]

\* The feedbackStats query of loadGlobalContext: articles LEFT JOIN
\* article_feedback, counting the distinct articles, and those with an
\* upvote row and with a downvote row
FeedbackStats(table, log) ==
    LET with(kind) == { id \in DOMAIN table :
                          \E k \in 1..Len(log) : /\ log[k].article_id = id
                                                  /\ log[k].feedback_type = kind }
    IN  FeedbackPattern(Cardinality(DOMAIN table), Cardinality(with("upvote")),
                        Cardinality(with("downvote")))

\* What the queries of a loadGlobalContext call have returned so far
NoLoaded == [tagRegistry |-> <<>>, feedbackPatterns |-> FeedbackPattern(0, 0, 0)]

\* No row: the INSERT of reconcileTags has not returned one
NoTag == [id |-> 0, name |-> <<>>]

\* A call frame on an agent instance that no call has been made on.  The
\* frames of `agent` are calls on instances of their own unless their
\* instance field names a common one; the fields globalContext,
\* tagRegistry and feedbackPatterns belong to the instance.
NewAgent ==
    [instance |-> "own",        \* "own", or the name of the instance shared with other frames
     globalContext |-> FALSE,   \* this.globalContext is set
     tagRegistry |-> <<>>,      \* this.globalContext.tagRegistry: <<id, name>> rows
     loaded |-> NoLoaded,       \* locals of loadGlobalContext: tagRegistry, feedbackPatterns
     context |-> FeedbackPattern(0, 0, 0), \* local context.feedbackPatterns of reEvaluateArticle
     mi |-> 1,                  \* index of the tag result saveArticleAnalysis is mapping
     ri |-> 0,                  \* which R2 reference saveArticleAnalysis is inserting (1..3)
     op |-> "idle",             \* "idle" | "load" | "reconcile" | "save" | "reEvaluate" | "batch" | "feedback"
     pc |-> "idle",             \* "idle" | "querying" | "counting" | "queried" | "loop" | "inserting" | "inserted" | "updating" | "stored" | ...
     suggestedTags |-> <<>>,    \* argument of reconcileTags
     i |-> 1,                   \* index of the suggestion the loop is at
     newTag |-> NoTag,          \* local newTag of reconcileTags: the row its INSERT returned
     results |-> <<>>,          \* local of reconcileTags
     outcome |-> "none",        \* "returned" | "cached" | "loadThrew" | "createThrew"
     data |-> NoArticleData,    \* argument of saveArticleAnalysis
     r2Keys |-> NoR2Keys,       \* argument of saveArticleAnalysis
     saved |-> "none",          \* what saveArticleAnalysis returned
     feedback |-> NoUserFeedback, \* argument of processFeedback
     processed |-> "none",      \* "true" | "false" | "threw": how processFeedback ended
     resultOf |-> <<>>,         \* history: index of the suggestion behind each result
     created |-> <<>>,          \* history: names this reconcileTags call inserted
     failedAt |-> {},           \* history: indices whose creation failed
     feedbackPatterns |-> FeedbackPattern(0, 0, 0),  \* of this.globalContext
     criteria |-> NoCriteria,   \* local of reEvaluateArticle
     articleId |-> 0,           \* argument of reEvaluateArticle
     article |-> NoArticle,     \* local of reEvaluateArticle: the row it read
     response |-> NoAIResponse, \* what askAI returned to performStricterAnalysis
     reEval |-> NoReEvaluation, \* the ReEvaluationResult returned
     evalOutcome |-> "none",    \* "returned" | "threw": how reEvaluateArticle ended
     batch |-> <<>>,            \* local of batchReEvaluate: the ids selected
     bi |-> 1,                  \* index of the record the batch loop is at
     batchOutcome |-> "none",   \* "returned" | "threw": how batchReEvaluate ended
     attempted |-> <<>>,        \* history: ids reEvaluateArticle was called with
     caught |-> {},             \* history: batch indices whose re-evaluation threw
     \* history: the article's row when reEvaluateArticle / saveArticleAnalysis began
     rowBefore |-> NoArticle]   \* history: the stored row when the call started

\* What analyzeWithAI returns: title, author and published_date are "NULL"
\* for null
AIAnalysis(title, author, published_date, summary, time_roi, ranking, suggested_tags) ==
    [title |-> title, author |-> author, published_date |-> published_date,
     summary |-> summary, time_roi |-> time_roi, ranking |-> ranking,
     suggested_tags |-> suggested_tags]

NoAnalysis == AIAnalysis("NULL", "NULL", "NULL", "", "", 0, <<>>)

\* The /process requests delivered to the Durable Object of one URL
Requests == {"r1", "r2"}
\* A request that has not been delivered
NoRun == [pc |-> "idle",        \* "checking" | "creating" | "created" | "rendering" | "printing" | "collections" | "analysing"
                                \* | "putting" | "storing" | "updating" | "updated" | "tagging" | "catching" | "done" | "acked"
          articleId |-> 0,      \* local article.id of process
          aiAnalysis |-> NoAnalysis, \* local aiAnalysis of process
          artifact |-> 0,       \* which artifact storeArtifacts is at (1..3)
          errorId |-> 0,        \* the id bound to the UPDATE of the catch block
          result |-> "none"]    \* "success" | "failure" | "rejected": process returned
                                \* { success }, or its promise was rejected
\* The frames of the calls in progress of the feedback endpoint, of
\* ArticleAgent.receiveFeedback and of ArticleAgent.createAndAssignTags
Writers == {"w1", "w2"}
\* No call in progress
NoHandler ==
    [pc |-> "idle",             \* the statement awaited: "feedback" | "update" | "override" | "ranking"
                                \* | "select" | "insert" | "map" | "collection" | "url" | "article"
     by |-> "none",             \* who made the call: "endpoint" | "receiveFeedback" | a request of process
     fn |-> "none",             \* the function running: "endpoint" | "receiveFeedback" | "createAndAssignTags"
     body |-> NoFeedbackData,   \* the request body / feedbackData / (articleId, tags)
     agentNamespace |-> FALSE,  \* env.ARTICLE_AGENT is bound (local agentNamespace of the endpoint)
     ti |-> 1,                  \* index of the tag the loop is at
     tag |-> 0,                 \* local tag: its id, 0 for null
     outcome |-> "none"]        \* "returned" | "threw": the call returned (the endpoint replied
                                \* success: true), or it rejected (the endpoint replied success: false)
\* The frame in which process runs createAndAssignTags for request r
WriterOf(r) == IF r = "r1" THEN "w1" ELSE "w2"
\* The Durable Object as constructed
NewDurableObject ==
    [agentState |-> [status |-> "idle", articleId |-> 0],   \* this.agentState
     run |-> [r \in Requests |-> NoRun],
     rendered |-> 0]            \* history: times the URL was rendered
\* No request has been delivered and no feedback recorded
IngestIdle ==
    /\ durable = NewDurableObject
    /\ feedbackLog = <<>>
    /\ handlers = [w \in Writers |-> NoHandler]
    /\ collectionItems = {}

\* The frames that are calls on the instance frame s is a call on
InstanceFrames(ag, s) ==
    { t \in DOMAIN ag : t = s \/ (ag[s].instance # "own" /\ ag[t].instance = ag[s].instance) }

\* The frames ag after frame s wrote this.globalContext (or pushed to its
\* tagRegistry): every frame of the instance sees what s holds
Publish(ag, s) ==
    [t \in DOMAIN ag |->
        IF t \in InstanceFrames(ag, s)
        THEN [ag[t] EXCEPT !.globalContext = ag[s].globalContext,
                           !.tagRegistry = ag[s].tagRegistry,
                           !.feedbackPatterns = ag[s].feedbackPatterns]
        ELSE ag[t]]

\* No agent has been created and the tables are empty
KbIdle ==
    /\ tagTable = <<>>
    /\ tagMap = {}
    /\ articles = [a \in KbArticleIds |-> StoredRow("NULL")]
    /\ r2Objects = {}
    /\ agent = [s \in Agents |-> NewAgent]
    /\ IngestIdle

\* No query is being answered
RagIdle ==
    /\ pc = "idle"
    /\ via = "none"
    /\ defaultRetries = DefaultRetryCount
    /\ store = {}
    /\ userQuestion = <<>>
    /\ retrievalLimit = 0
    /\ gw = GwIdle
    /\ optimizedQuery = <<>>
    /\ retrievedArticles = <<>>
    /\ ctxIndex = 0
    /\ contextParts = <<>>
    /\ result = NoResult
    /\ http = NoHttp
    /\ stages = <<>>
    /\ calls = NoCalls
    /\ searchCalls = <<>>

Init ==
    /\ pc = "idle"
    /\ via = "none"
    /\ defaultRetries \in { WorkerAIDefaultRetries(r) : r \in 0..MaxRetries }
    /\ store \in { 1..k : k \in 0..MaxArticleId }
    /\ userQuestion = <<>>
    /\ retrievalLimit = 0
    /\ gw = GwIdle
    /\ optimizedQuery = <<>>
    /\ retrievedArticles = <<>>
    /\ ctxIndex = 0
    /\ contextParts = <<>>
    /\ result = NoResult
    /\ http = NoHttp
    /\ stages = <<>>
    /\ calls = NoCalls
    /\ searchCalls = <<>>
    /\ KbIdle

\* answerQuery up to its first await: optimizeQuery calls generateReasoning
answerQueryEnter(question, limit, how) ==
    /\ pc' = "optimizing"
    /\ via' = how
    /\ userQuestion' = question
    /\ retrievalLimit' = limit
    /\ gw' = GatewayEnter("reason", FALSE, FALSE, 0, defaultRetries, "optimize")
    /\ stages' = <<"OPTIMIZING">>
    /\ UNCHANGED <<defaultRetries, store, optimizedQuery, retrievedArticles,
                   ctxIndex, contextParts, result, http, calls, searchCalls>>

\* answerQuery(question, limit) called on the agent, with any limit
AnswerQueryDirect ==
    /\ pc = "idle"
    /\ \E question \in Questions, limit \in {0, MinLimit, MaxLimit + 1} :
          answerQueryEnter(question, limit, "direct")
    /\ UNCHANGED <<kbVars, ingestVars>>

\* Mutant of EndpointRejection: the upper end of the range is not checked
EndpointRejectionNoUpperBound(body) ==
    IF body.query = <<>> THEN "Query is required and must be a string"
    ELSE IF body.limitType = "undefined" THEN ""
    ELSE IF body.limitType # "number" \/ body.limit < MinLimit
    THEN "Limit must be a number between 1 and 50"
    ELSE ""

\* The endpoint's checks of body.query and body.limit; "" when it passes
EndpointRejection(body) ==
    IF body.query = <<>> THEN "Query is required and must be a string"
    ELSE IF body.limitType = "undefined" THEN ""
    ELSE IF body.limitType # "number" \/ body.limit < MinLimit \/ body.limit > MaxLimit
    THEN "Limit must be a number between 1 and 50"
    ELSE ""

EndpointBodies ==
    [query : Questions \cup {<<>>}, limitType : {"number"}, limit : {0, MinLimit, MaxLimit + 1}]
    \cup [query : Questions, limitType : {"undefined", "string"}, limit : {0}]

\* POST /api/agent/agentic-query up to the call of answerQuery
AgenticQueryEndpoint ==
    /\ pc = "idle"
    /\ \E body \in EndpointBodies :
          IF EndpointRejection(body) # ""
          THEN /\ pc' = "responded"
               /\ via' = "endpoint"
               /\ userQuestion' = body.query
               /\ retrievalLimit' = body.limit
               /\ http' = [NoHttp EXCEPT !.sent = TRUE, !.error = EndpointRejection(body)]
               /\ UNCHANGED <<defaultRetries, store, gw, optimizedQuery,
                              retrievedArticles, ctxIndex, contextParts, result,
                              stages, calls, searchCalls>>
          ELSE answerQueryEnter(body.query,
                                IF body.limitType = "undefined" THEN DefaultLimit
                                ELSE body.limit,
                                "endpoint")
    /\ UNCHANGED <<kbVars, ingestVars>>

\* Whether remote outcome o is one the operation can use: a non-empty text,
\* a text that parses, a vector
Usable(op, schema, o) ==
    CASE op = "reason"    -> o.kind = "response" /\ o.text # <<>>
      [] op = "structure" -> o.kind = "response" /\ o.payload.json \notin {"invalid", "nobrace"}
      [] op = "embed"     -> o.kind = "response"
      [] op = "askAI"     -> \/ o.kind \in {"empty", "blank"}
                             \/ o.kind = "response" /\ ~schema
                             \/ o.kind = "response" /\ o.payload.json \notin {"invalid", "nobrace"}
      [] OTHER -> FALSE

\* history: one more remote inference call, made for g with outcome o
CountCall(c, g, o) ==
    LET synth == g.caller = "synthesis"
        good == Usable(g.op, g.schema, o)
    IN  [c EXCEPT !.inference = TRUE,
                  !.reasoning = IF synth /\ g.op = "reason" THEN @ + 1 ELSE @,
                  !.structuring = IF synth /\ g.op = "structure" THEN @ + 1 ELSE @,
                  !.optimized = @ \/ (g.caller = "optimize" /\ good),
                  !.reasoned = @ \/ (synth /\ g.op = "reason" /\ good),
                  !.structured = @ \/ (synth /\ g.op = "structure" /\ good)]

\* One loop iteration of the gateway operation in progress: the remote call
\* and what the operation does with its outcome
GatewayAttempt ==
    /\ gw.status = "running"
    /\ \E o \in RemoteOutcomes(gw.op) :
          /\ gw' = GatewayIteration(gw, o)
          /\ calls' = CountCall(calls, gw, o)
    /\ UNCHANGED <<pc, via, defaultRetries, store, userQuestion, retrievalLimit,
                   optimizedQuery, retrievedArticles, ctxIndex, contextParts,
                   result, http, stages, searchCalls>>
    /\ UNCHANGED <<kbVars, ingestVars>>

\* A gateway operation called on its own, with or without a retry count
GatewayCall ==
    /\ pc = "idle"
    /\ \E op \in {"reason", "structure", "embed", "askAI"},
          schema \in BOOLEAN, given \in BOOLEAN, retries \in 0..MaxRetries :
          /\ (op # "askAI" => schema = (op = "structure"))
          /\ (~given => retries = 0)
          /\ gw' = GatewayEnter(op, schema, given, retries, defaultRetries, "direct")
    /\ pc' = "gateway"
    /\ via' = "gateway"
    /\ UNCHANGED <<defaultRetries, store, userQuestion, retrievalLimit,
                   optimizedQuery, retrievedArticles, ctxIndex, contextParts,
                   result, http, stages, calls, searchCalls>>
    /\ UNCHANGED <<kbVars, ingestVars>>

\* answerQuery returns r: nothing of the run is left in progress
answerQueryFinish(r, stage) ==
    /\ result' = r
    /\ pc' = "returned"
    /\ stages' = Append(stages, stage)

\* optimizeQuery returns and answerQuery calls searchKnowledgeBase, which
\* embeds the query first
OptimizeQueryReturns ==
    /\ pc = "optimizing"
    /\ gw.status = "returned"
    /\ optimizedQuery' = optimizeQuery(gw, userQuestion)
    /\ searchCalls' = Append(searchCalls,
                             [query |-> optimizedQuery', limit |-> retrievalLimit])
    /\ gw' = GatewayEnter("embed", FALSE, FALSE, 0, defaultRetries, "search")
    /\ pc' = "embedding"
    /\ stages' = Append(stages, "RETRIEVING")
    /\ UNCHANGED <<via, defaultRetries, store, userQuestion, retrievalLimit,
                   retrievedArticles, ctxIndex, contextParts, result, http, calls>>
    /\ UNCHANGED <<kbVars, ingestVars>>

\* searchKnowledgeBase once the embedding call has returned: without a
\* vector it either raises the failure or reports no match; with one it
\* queries the index
SearchEmbeddingReturns ==
    /\ pc = "embedding"
    /\ gw.status = "returned"
    /\ \/ /\ gw.success
          /\ pc' = "querying"
          /\ UNCHANGED <<result, stages, calls>>
       \/ /\ ~gw.success
          /\ answerQueryFinish(QueryFailed(gw.error), "FAILED")
          /\ calls' = [calls EXCEPT !.search = "threw"]
       \/ /\ ~gw.success
          /\ answerQueryFinish(EmptyResult, "EMPTY_RESULT")
          /\ calls' = [calls EXCEPT !.search = "returned"]
    /\ UNCHANGED <<via, defaultRetries, store, userQuestion, retrievalLimit, gw,
                   optimizedQuery, retrievedArticles, ctxIndex, contextParts,
                   http, searchCalls>>
    /\ UNCHANGED <<kbVars, ingestVars>>

\* What the index may answer to a top-k query with this limit
SearchResults(limit) ==
    IF limit \in MinLimit..MaxLimit THEN RefSeqs(Min(limit, MaxRefs)) ELSE RefSeqs(MaxRefs)

\* Mutant of VectorQueryReturns: no early return for zero references, so
\* constructContext builds an empty context and the synthesis starts
VectorQueryReturnsNoEmptyCheck ==
    /\ pc = "querying"
    /\ \/ /\ answerQueryFinish(QueryFailed(VectorErrorMessage), "FAILED")
          /\ calls' = [calls EXCEPT !.search = "threw"]
          /\ UNCHANGED <<retrievedArticles, ctxIndex, gw>>
       \/ /\ calls' = [calls EXCEPT !.search = "returned"]
          /\ retrievedArticles' = <<>>
          /\ ctxIndex' = 1
          /\ pc' = "reasoning"
          /\ stages' = stages \o <<"CONTEXT_BUILDING", "REASONING">>
          /\ gw' = GatewayEnter("reason", FALSE, FALSE, 0, defaultRetries, "synthesis")
          /\ UNCHANGED result
       \/ \E refs \in SearchResults(retrievalLimit) \ { <<>> } :
             /\ calls' = [calls EXCEPT !.search = "returned"]
             /\ retrievedArticles' = refs
             /\ ctxIndex' = 1
             /\ pc' = "context"
             /\ stages' = Append(stages, "CONTEXT_BUILDING")
             /\ UNCHANGED <<result, gw>>
    /\ UNCHANGED <<via, defaultRetries, store, userQuestion, retrievalLimit,
                   optimizedQuery, contextParts, http, searchCalls>>
    /\ UNCHANGED <<kbVars, ingestVars>>

\* The index query of searchKnowledgeBase returns, and answerQuery goes on
\* to the zero-result return or to constructContext
VectorQueryReturns ==
    /\ pc = "querying"
    /\ \/ /\ answerQueryFinish(QueryFailed(VectorErrorMessage), "FAILED")
          /\ calls' = [calls EXCEPT !.search = "threw"]
          /\ UNCHANGED <<retrievedArticles, ctxIndex>>
       \/ /\ answerQueryFinish(EmptyResult, "EMPTY_RESULT")
          /\ calls' = [calls EXCEPT !.search = "returned"]
          /\ UNCHANGED <<retrievedArticles, ctxIndex>>
       \/ \E refs \in SearchResults(retrievalLimit) \ { <<>> } :
             /\ calls' = [calls EXCEPT !.search = "returned"]
             /\ retrievedArticles' = refs
             /\ ctxIndex' = 1
             /\ pc' = "context"
             /\ stages' = Append(stages, "CONTEXT_BUILDING")
             /\ UNCHANGED result
    /\ UNCHANGED <<via, defaultRetries, store, userQuestion, retrievalLimit, gw,
                   optimizedQuery, contextParts, http, searchCalls>>
    /\ UNCHANGED <<kbVars, ingestVars>>

\* constructContext, one loop iteration: the record lookup (and the tag
\* lookup of a record that exists); after the last one answerQuery calls
\* generateStructuredReasoning, which calls generateReasoning
\* Mutant of constructContext: a block is built for a missing record too
constructContextKeepsMissing(parts, articleId, records) ==
    Append(parts, articleId)

\* Mutant of constructContext: the new block is put in front
constructContextPrepends(parts, articleId, records) ==
    IF articleId \in records THEN <<articleId>> \o parts ELSE parts

constructContext(parts, articleId, records) ==
    IF articleId \in records THEN Append(parts, articleId) ELSE parts

\* Mutant of AfterSelect: the read removes the row it returns
AfterSelectDeletes(records, articleId) == records \ {articleId}

\* The articles table after SELECT * FROM articles WHERE id = ? and the tag
\* SELECT of constructContext: reads leave it as it was
AfterSelect(records, articleId) == records

ContextLookup ==
    /\ pc = "context"
    /\ ctxIndex <= Len(retrievedArticles)
    /\ store' = AfterSelect(store, retrievedArticles[ctxIndex])
    /\ \/ /\ answerQueryFinish(QueryFailed(StoreErrorMessage), "FAILED")
          /\ calls' = [calls EXCEPT !.storeThrew = TRUE]
          /\ UNCHANGED <<contextParts, ctxIndex, gw>>
       \/ /\ contextParts' =
                constructContext(contextParts, retrievedArticles[ctxIndex], store)
          /\ ctxIndex' = ctxIndex + 1
          /\ IF ctxIndex = Len(retrievedArticles)
             THEN /\ pc' = "reasoning"
                  /\ stages' = Append(stages, "REASONING")
                  /\ gw' = GatewayEnter("reason", FALSE, FALSE, 0, defaultRetries, "synthesis")
             ELSE UNCHANGED <<pc, stages, gw>>
          /\ UNCHANGED <<result, calls>>
    /\ UNCHANGED <<via, defaultRetries, userQuestion, retrievalLimit,
                   optimizedQuery, retrievedArticles, http, searchCalls>>
    /\ UNCHANGED <<kbVars, ingestVars>>

\* generateStructuredReasoning after its reasoning stage: return the failure
\* (which answerQuery throws and catches) or call generateStructured
SynthesisReasoningReturns ==
    /\ pc = "reasoning"
    /\ gw.status = "returned"
    /\ IF ReasoningStageFailed(gw)
       THEN /\ answerQueryFinish(
                  answerQueryReturn(generateStructuredReasoning(gw), retrievedArticles),
                  "FAILED")
            /\ UNCHANGED gw
       ELSE /\ gw' = GatewayEnter("structure", TRUE, FALSE, 0, defaultRetries, "synthesis")
            /\ pc' = "structuring"
            /\ stages' = Append(stages, "STRUCTURING")
            /\ UNCHANGED result
    /\ UNCHANGED <<via, defaultRetries, store, userQuestion, retrievalLimit,
                   optimizedQuery, retrievedArticles, ctxIndex, contextParts,
                   http, calls, searchCalls>>
    /\ UNCHANGED <<kbVars, ingestVars>>

\* generateStructured returns, then generateStructuredReasoning, then answerQuery
StructuringReturns ==
    /\ pc = "structuring"
    /\ gw.status = "returned"
    /\ LET r == answerQueryReturn(generateStructuredReasoning(gw), retrievedArticles)
       IN  answerQueryFinish(r, IF r.success THEN "DONE" ELSE "FAILED")
    /\ UNCHANGED <<via, defaultRetries, store, userQuestion, retrievalLimit, gw,
                   optimizedQuery, retrievedArticles, ctxIndex, contextParts,
                   http, calls, searchCalls>>
    /\ UNCHANGED <<kbVars, ingestVars>>

\* The endpoint after answerQuery returned: the failure response, or the
\* enrichment reads of the store (which may throw into the handler's catch)
\* and the success response
EndpointResponds ==
    /\ pc = "returned"
    /\ via = "endpoint"
    /\ \/ /\ ~result.success
          /\ http' = [NoHttp EXCEPT !.sent = TRUE,
                         !.error = IF result.error # "" THEN result.error
                                   ELSE "Query failed"]
       \/ /\ result.success
          /\ result.retrieved_articles # <<>>
          /\ http' = [NoHttp EXCEPT !.sent = TRUE, !.error = StoreErrorMessage]
       \/ /\ result.success
          /\ http' = [NoHttp EXCEPT !.sent = TRUE, !.success = TRUE,
                         !.answer = result.data,
                         !.retrieval_count = Len(result.retrieved_articles)]
    /\ pc' = "responded"
    /\ UNCHANGED <<via, defaultRetries, store, userQuestion, retrievalLimit, gw,
                   optimizedQuery, retrievedArticles, ctxIndex, contextParts,
                   result, stages, calls, searchCalls>>
    /\ UNCHANGED <<kbVars, ingestVars>>

Next ==
    \/ AnswerQueryDirect
    \/ AgenticQueryEndpoint
    \/ GatewayCall
    \/ GatewayAttempt
    \/ OptimizeQueryReturns
    \/ SearchEmbeddingReturns
    \/ VectorQueryReturns
    \/ ContextLookup
    \/ SynthesisReasoningReturns
    \/ StructuringReturns
    \/ EndpointResponds

Spec == Init /\ [][Next]_vars

\* The steps of a request in progress: each is the return of a call the
\* request awaits (an inference call, the retrieval, a store read)
AnswerQueryStep ==
    \/ GatewayAttempt
    \/ OptimizeQueryReturns
    \/ SearchEmbeddingReturns
    \/ VectorQueryReturns
    \/ ContextLookup
    \/ SynthesisReasoningReturns
    \/ StructuringReturns

\* The agent is constructed with any retry count; the store holds every
\* article but the last, so that references are found and not found
LiveInit ==
    /\ pc = "idle"
    /\ via = "none"
    /\ defaultRetries \in { WorkerAIDefaultRetries(r) : r \in 0..MaxRetries }
    /\ store = 1..(MaxArticleId - 1)
    /\ userQuestion = <<>>
    /\ retrievalLimit = 0
    /\ gw = GwIdle
    /\ optimizedQuery = <<>>
    /\ retrievedArticles = <<>>
    /\ ctxIndex = 0
    /\ contextParts = <<>>
    /\ result = NoResult
    /\ http = NoHttp
    /\ stages = <<>>
    /\ calls = NoCalls
    /\ searchCalls = <<>>
    /\ KbIdle

\* The pipeline when every call that is awaited eventually returns or fails
LiveSpec == LiveInit /\ [][Next]_vars /\ WF_vars(AnswerQueryStep)

(***************************************************************************)
(* Knowledge base: the calls on an agent instance and the other writers    *)
(***************************************************************************)
\* Entry of reconcileTags (called directly or by saveArticleAnalysis): the
\* context is loaded first when this.globalContext is null
reconcileTagsEnter(a, op, suggestedTags) ==
    [a EXCEPT !.op = op,
              !.suggestedTags = suggestedTags,
              !.i = 1, !.results = <<>>, !.resultOf = <<>>,
              !.created = <<>>, !.failedAt = {}, !.outcome = "none",
              !.pc = IF a.globalContext THEN "loop" ELSE "querying"]

\* loadGlobalContext() called on an agent instance, as its call s: the
\* cached context is returned at once, otherwise the aggregation queries
\* are sent, whether or not another call on the instance has sent them
loadGlobalContextCall(s) ==
    /\ agent[s].op = "idle"
    /\ agent' = [agent EXCEPT ![s] =
                    IF @.globalContext
                    THEN [@ EXCEPT !.outcome = "cached"]
                    ELSE [@ EXCEPT !.op = "load", !.pc = "querying",
                                   !.outcome = "none"]]
    /\ UNCHANGED <<tagTable, tagMap, articles, r2Objects>>
    /\ UNCHANGED <<ragVars, ingestVars>>

\* reEvaluateArticle(articleId) entered by agent a: loadGlobalContext first
reEvaluateArticleEnter(a, articleId) ==
    [a EXCEPT !.articleId = articleId,
              !.attempted = Append(@, articleId),
              !.evalOutcome = "none",
              !.response = NoAIResponse,
              !.criteria = NoCriteria,
              !.context = a.feedbackPatterns,
              !.pc = IF a.globalContext THEN "fetching" ELSE "querying"]

\* Mutant of reEvaluateArticleThrows: batchReEvaluate does not catch
reEvaluateArticleThrowsUncaught(a) ==
    [a EXCEPT !.evalOutcome = "threw", !.op = "idle", !.pc = "idle",
              !.batchOutcome = IF a.op = "batch" THEN "threw" ELSE @]

\* reEvaluateArticle rejects; inside batchReEvaluate the catch block logs
\* the error and the loop goes on with the next record
reEvaluateArticleThrows(a) ==
    IF a.op = "batch"
    THEN [a EXCEPT !.evalOutcome = "threw", !.caught = @ \cup {a.bi},
                   !.bi = @ + 1, !.pc = "batchLoop"]
    ELSE [a EXCEPT !.evalOutcome = "threw", !.op = "idle", !.pc = "idle"]

\* processFeedback is over: its arguments and locals are gone
processFeedbackEnds(a, processed) ==
    [a EXCEPT !.processed = processed, !.op = "idle", !.pc = "idle",
              !.feedback = NoUserFeedback, !.article = NoArticle,
              !.data = NoArticleData, !.rowBefore = NoArticle]

\* processFeedback rejects: nothing in it catches the error of a statement
processFeedbackThrows(a) == processFeedbackEnds(a, "threw")

\* applyFeedbackToArticle after saveArticleAnalysis, whose result it does
\* not read: the collection assignment when a collection is given, or the
\* return to processFeedback, which finds no insights and returns true
processFeedbackResume(a) ==
    IF a.feedback.collectionId # 0
    THEN [a EXCEPT !.pc = "collection"]
    ELSE processFeedbackEnds(a, "true")

\* saveArticleAnalysis returns its result to the caller
saveArticleAnalysisEnds(a, saved) ==
    IF a.op = "feedback"
    THEN processFeedbackResume([a EXCEPT !.saved = saved])
    ELSE [a EXCEPT !.saved = saved, !.op = "idle", !.pc = "idle"]

\* saveArticleAnalysis returns false from its catch block
saveArticleAnalysisCatch(a) == saveArticleAnalysisEnds(a, "false")

\* saveArticleAnalysis after the tag mappings: the INSERT of the first R2
\* reference whose key is given, or the return of true
saveArticleAnalysisAfterTags(a) ==
    IF NextR2(a.r2Keys, 1) # 0
    THEN [a EXCEPT !.pc = "r2", !.ri = NextR2(a.r2Keys, 1)]
    ELSE saveArticleAnalysisEnds(a, "true")

\* Where a call is while loadGlobalContext awaits its queries
Loading == {"querying", "counting", "queried"}

\* The query of the load of call s for the tag registry is executed: its
\* rows are what the store holds now, and the query for the feedback
\* statistics is sent
loadGlobalContextRegistry(s) ==
    /\ agent[s].pc = "querying"
    /\ \E registry \in RegistryOrders(tagTable, tagMap) :
          agent' = [agent EXCEPT ![s] =
             [@ EXCEPT !.pc = "counting", !.loaded.tagRegistry = registry]]
    /\ UNCHANGED <<tagTable, tagMap, articles, r2Objects>>
    /\ UNCHANGED <<ragVars, ingestVars>>

\* The query of the load of call s for the feedback statistics is executed
\* on what the store holds now, and the last queries are sent
loadGlobalContextStats(s) ==
    /\ agent[s].pc = "counting"
    /\ agent' = [agent EXCEPT ![s] =
          [@ EXCEPT !.pc = "queried",
                    !.loaded.feedbackPatterns = FeedbackStats(articles, feedbackLog)]]
    /\ UNCHANGED <<tagTable, tagMap, articles, r2Objects>>
    /\ UNCHANGED <<ragVars, ingestVars>>

\* The last query of the load of call s returns: this.globalContext is
\* assigned the object built from the rows, in place of whatever it held,
\* and the caller goes on; or one of the queries raises
loadGlobalContextReturns(s) ==
    /\ \/ /\ agent[s].pc = "queried"
          /\ agent' = Publish([agent EXCEPT ![s] =
                [@ EXCEPT !.globalContext = TRUE,
                          !.tagRegistry = agent[s].loaded.tagRegistry,
                          !.feedbackPatterns = agent[s].loaded.feedbackPatterns,
                          !.context = agent[s].loaded.feedbackPatterns,
                          !.loaded = NoLoaded,
                          !.pc = IF agent[s].op = "load" THEN "idle"
                                 ELSE IF agent[s].op \in {"reEvaluate", "batch"}
                                 THEN "fetching"
                                 ELSE IF agent[s].op = "feedback" THEN "reading"
                                 ELSE "loop",
                          !.outcome = IF agent[s].op = "load" THEN "returned" ELSE @,
                          !.op = IF @ = "load" THEN "idle" ELSE @]], s)
       \/ /\ agent[s].pc \in Loading
          /\ agent' = [agent EXCEPT ![s] =
                IF @.op \in {"reEvaluate", "batch"}
                THEN reEvaluateArticleThrows([@ EXCEPT !.outcome = "loadThrew",
                                                       !.loaded = NoLoaded])
                ELSE IF @.op = "feedback"
                THEN processFeedbackThrows([@ EXCEPT !.outcome = "loadThrew",
                                                     !.loaded = NoLoaded])
                ELSE [@ EXCEPT !.pc = "idle",
                               !.outcome = "loadThrew",
                               !.loaded = NoLoaded,
                               !.saved = IF agent[s].op = "save" THEN "false" ELSE @,
                               !.op = "idle"]]
    /\ UNCHANGED <<tagTable, tagMap, articles, r2Objects>>
    /\ UNCHANGED <<ragVars, ingestVars>>

\* reconcileTags(suggestedTags) called on an agent instance, as its call s
reconcileTagsCall(s) ==
    /\ agent[s].op = "idle"
    /\ \E suggestedTags \in TagBatches :
          agent' = [agent EXCEPT ![s] =
                       reconcileTagsEnter(@, "reconcile", suggestedTags)]
    /\ UNCHANGED <<tagTable, tagMap, articles, r2Objects>>
    /\ UNCHANGED <<ragVars, ingestVars>>

\* reconcileTags rejects: the INSERT raised and nothing catches it there;
\* saveArticleAnalysis catches it and returns false
reconcileTagsThrows(a) ==
    LET b == [a EXCEPT !.outcome = "createThrew", !.failedAt = @ \cup {a.i}]
    IN  IF a.op \in {"save", "feedback"} THEN saveArticleAnalysisCatch(b)
        ELSE [b EXCEPT !.op = "idle", !.pc = "idle"]

\* results.push({ tagId, tagName, isNew }) for the suggestion at a.i
PushResult(a, tagId, tagName, isNew) ==
    [a EXCEPT !.results = Append(@, [tagId |-> tagId, tagName |-> tagName,
                                     isNew |-> isNew]),
              !.resultOf = Append(@, a.i),
              !.i = @ + 1]

\* Mutant of reconcileTagsCreated: the new tag is not added to the registry
reconcileTagsCreatedNoAppend(a, newTag) ==
    [PushResult(a, newTag.id, newTag.name, TRUE) EXCEPT
        !.created = Append(@, newTag.name)]

\* The INSERT returned the new row: it is appended to the local registry
\* and pushed to the results
reconcileTagsCreated(a, newTag) ==
    [PushResult(a, newTag.id, newTag.name, TRUE) EXCEPT
        !.tagRegistry = Append(@, [id |-> newTag.id, name |-> newTag.name]),
        !.created = Append(@, newTag.name)]

\* Mutant of reconcileTagsMatched: the result carries the suggested name
reconcileTagsMatchedSuggestedName(a, k) ==
    PushResult(a, a.tagRegistry[k].id, Trim(a.suggestedTags[a.i]), FALSE)

\* The suggestion matched registry entry k: its id and stored name are used
reconcileTagsMatched(a, k) ==
    PushResult(a, a.tagRegistry[k].id, a.tagRegistry[k].name, FALSE)

\* The loop of call s up to its await: the lookup in the registry of
\* this.globalContext, and either the push of the match or the INSERT
\* being sent
reconcileTagsFind(s) ==
    LET a == agent[s]
        k == existingTag(a.tagRegistry, normalizedTag(a.suggestedTags[a.i]))
    IN  /\ a.pc = "loop"
        /\ a.i <= Len(a.suggestedTags)
        /\ agent' = [agent EXCEPT ![s] =
                        IF k # 0 THEN reconcileTagsMatched(a, k)
                        ELSE [a EXCEPT !.pc = "inserting"]]
        /\ UNCHANGED <<tagTable, tagMap, articles, r2Objects>>
        /\ UNCHANGED <<ragVars, ingestVars>>

\* The INSERT of call s is executed: the statement raises on a name that
\* is in the table by now (or for another reason); otherwise the row is
\* stored and returned to the call, or no row comes back and the
\* suggestion is skipped
reconcileTagsInsert(s) ==
    LET a == agent[s]
        name == Trim(a.suggestedTags[a.i])
    IN  /\ a.pc = "inserting"
        /\ IF UniqueViolation(tagTable, name)
           THEN /\ agent' = [agent EXCEPT ![s] = reconcileTagsThrows(a)]
                /\ UNCHANGED tagTable
           ELSE \/ /\ Len(tagTable) < MaxTags
                   /\ tagTable' = InsertTag(tagTable, name)
                   /\ agent' = [agent EXCEPT ![s] =
                                   [a EXCEPT !.newTag = [id |-> Last(tagTable').id,
                                                         name |-> Last(tagTable').name],
                                             !.pc = "inserted"]]
                \/ /\ agent' = [agent EXCEPT ![s] =
                                   [a EXCEPT !.i = @ + 1,
                                             !.failedAt = @ \cup {a.i},
                                             !.pc = "loop"]]
                   /\ UNCHANGED tagTable
                \/ /\ agent' = [agent EXCEPT ![s] = reconcileTagsThrows(a)]
                   /\ UNCHANGED tagTable
        /\ UNCHANGED <<tagMap, articles, r2Objects>>
        /\ UNCHANGED <<ragVars, ingestVars>>

\* The call resumes with the row its INSERT returned: the row is pushed to
\* the registry this.globalContext holds by now and to the results
reconcileTagsPush(s) ==
    LET a == agent[s]
    IN  /\ a.pc = "inserted"
        /\ agent' = Publish([agent EXCEPT ![s] =
                        [reconcileTagsCreated(a, a.newTag)
                            EXCEPT !.newTag = NoTag, !.pc = "loop"]], s)
        /\ UNCHANGED <<tagTable, tagMap, articles, r2Objects>>
        /\ UNCHANGED <<ragVars, ingestVars>>

\* The loop of reconcileTags is over: the results are returned, and
\* saveArticleAnalysis goes on with them
reconcileTagsReturns(s) ==
    /\ agent[s].pc = "loop"
    /\ agent[s].i > Len(agent[s].suggestedTags)
    /\ agent' = [agent EXCEPT ![s] =
                    IF @.op \in {"save", "feedback"}
                    THEN (IF @.results = <<>>
                          THEN saveArticleAnalysisAfterTags(
                                   [@ EXCEPT !.outcome = "returned"])
                          ELSE [@ EXCEPT !.outcome = "returned", !.pc = "assign",
                                         !.mi = 1])
                    ELSE [@ EXCEPT !.outcome = "returned", !.pc = "idle",
                                   !.op = "idle"]]
    /\ UNCHANGED <<tagTable, tagMap, articles, r2Objects>>
    /\ UNCHANGED <<ragVars, ingestVars>>

\* Mutant of saveArticleAnalysisUpdate: the columns are assigned, not COALESCEd
saveArticleAnalysisUpdatePlain(row, data) ==
    [f \in ArticleFields \cup {"status"} |->
        IF f = "status" THEN data.status
        ELSE IF f = "ranking" THEN data.fields[f]
        ELSE OrNull(data.fields[f])]

\* The UPDATE statement of saveArticleAnalysis applied to the stored row
saveArticleAnalysisUpdate(row, data) == UpdateArticle(row, data)

\* Entry of saveArticleAnalysis(articleData, r2Keys) with an id: the UPDATE
\* is sent; row is the stored row at that moment
saveArticleAnalysisEnter(a, data, r2Keys, row) ==
    [a EXCEPT !.data = data, !.r2Keys = r2Keys, !.saved = "none", !.mi = 1,
              !.ri = 0, !.results = <<>>, !.resultOf = <<>>,
              !.rowBefore = row, !.pc = "updating"]

\* saveArticleAnalysis(articleData, r2Keys) called on agent s: without an id
\* it throws into its own catch block and returns false
saveArticleAnalysisCall(s) ==
    /\ agent[s].op = "idle"
    /\ \E id \in {0} \cup KbArticleIds, fields \in ArticleFieldInputs,
          in \in SaveInputs :
          LET data == ArticleData(id, fields, "read", in.tags)
          IN  agent' = [agent EXCEPT ![s] =
                 IF id = 0
                 THEN [@ EXCEPT !.data = NoArticleData, !.r2Keys = NoR2Keys,
                                !.rowBefore = NoArticle, !.saved = "false"]
                 ELSE saveArticleAnalysisEnter([@ EXCEPT !.op = "save"], data,
                                               in.r2Keys, articles[id])]
    /\ UNCHANGED <<tagTable, tagMap, articles, r2Objects>>
    /\ UNCHANGED <<ragVars, ingestVars>>

\* The UPDATE of saveArticleAnalysis is executed for call s (a row that is
\* not there is no error); or the UPDATE raises
saveArticleAnalysisStore(s) ==
    LET a == agent[s]
    IN  /\ a.pc = "updating"
        /\ \/ /\ articles' = IF a.data.id \in DOMAIN articles
                             THEN [articles EXCEPT ![a.data.id] =
                                      saveArticleAnalysisUpdate(@, a.data)]
                             ELSE articles
              /\ agent' = [agent EXCEPT ![s] = [a EXCEPT !.pc = "stored"]]
           \/ /\ agent' = [agent EXCEPT ![s] = saveArticleAnalysisCatch(a)]
              /\ UNCHANGED articles
        /\ UNCHANGED <<tagTable, tagMap, r2Objects>>
        /\ UNCHANGED <<ragVars, ingestVars>>

\* Call s resumes after its UPDATE and goes on to reconcileTags when tags
\* are given, which tests the this.globalContext of the moment, otherwise
\* to what follows the mappings
saveArticleAnalysisResume(s) ==
    LET a == agent[s]
    IN  /\ a.pc = "stored"
        /\ agent' = [agent EXCEPT ![s] =
                        IF a.data.tags # <<>>
                        THEN reconcileTagsEnter(a, a.op, a.data.tags)
                        ELSE saveArticleAnalysisAfterTags(a)]
        /\ UNCHANGED <<tagTable, tagMap, articles, r2Objects>>
        /\ UNCHANGED <<ragVars, ingestVars>>

\* The loop over the tag results of call s: the INSERT OR IGNORE INTO
\* article_tag_map of the next result is executed, and after the last one
\* the call goes on; or the statement raises
saveArticleAnalysisMap(s) ==
    LET a == agent[s]
    IN  /\ a.pc = "assign"
        /\ a.mi <= Len(a.results)
        /\ \/ /\ tagMap' = tagMap \cup { <<a.data.id, a.results[a.mi].tagId>> }
              /\ agent' = [agent EXCEPT ![s] =
                              IF a.mi < Len(a.results)
                              THEN [a EXCEPT !.mi = @ + 1]
                              ELSE saveArticleAnalysisAfterTags([a EXCEPT !.mi = @ + 1])]
           \/ /\ agent' = [agent EXCEPT ![s] = saveArticleAnalysisCatch(a)]
              /\ UNCHANGED tagMap
        /\ UNCHANGED <<tagTable, articles, r2Objects>>
        /\ UNCHANGED <<ragVars, ingestVars>>

\* INSERT INTO article_r2_objects for the reference call s is at: r2_key is
\* UNIQUE, so the statement raises when a row has the key by now (the rows
\* written before stay); otherwise the row is stored and the call goes on
\* to the next key that is given, or returns true; or the statement raises
saveArticleAnalysisR2(s) ==
    LET a == agent[s]
        r2_key == R2KeyAt(a.r2Keys, a.ri)
        next == NextR2(a.r2Keys, a.ri + 1)
    IN  /\ a.pc = "r2"
        /\ IF R2KeyTaken(r2Objects, r2_key)
           THEN /\ agent' = [agent EXCEPT ![s] = saveArticleAnalysisCatch(a)]
                /\ UNCHANGED r2Objects
           ELSE \/ /\ r2Objects' = r2Objects \cup
                                      {R2Row(a.data.id, r2_key, R2FileType(a.ri))}
                   /\ agent' = [agent EXCEPT ![s] =
                                   IF next # 0 THEN [a EXCEPT !.ri = next]
                                   ELSE saveArticleAnalysisEnds(a, "true")]
                \/ /\ agent' = [agent EXCEPT ![s] = saveArticleAnalysisCatch(a)]
                   /\ UNCHANGED r2Objects
        /\ UNCHANGED <<tagTable, tagMap, articles>>
        /\ UNCHANGED <<ragVars, ingestVars>>

(***************************************************************************)
(* The feedback endpoint, ArticleAgent.receiveFeedback and                 *)
(* ArticleAgent.createAndAssignTags: each call is a frame of `handlers`,   *)
(* and a step is one awaited statement being executed                      *)
(***************************************************************************)
FeedbackKinds ==
    {"upvote", "downvote", "saved", "archived", "tag_added", "tag_removed"}
\* score / manualRanking of a feedback; a score of 0 stands for none given
\* as well, which the endpoint and receiveFeedback treat as they treat 0
FeedbackScores == {0, 85, 150}
FbArticleIds == {1}
CollectionIds == {1}

\* The feedbacks a handler may be given
FeedbackBodies ==
    { FeedbackData(id, kind, score, tags, collection_id) :
        id \in FbArticleIds, kind \in FeedbackKinds, score \in FeedbackScores,
        tags \in {<<>>} \cup { <<name>> : name \in TagNames }
                 \cup { <<<<"a">>, <<"b">>>> },
        collection_id \in {0} \cup CollectionIds }

\* Those that name one tag and nothing else
TagBodies ==
    { FeedbackData(id, "tag_added", 0, <<name>>, 0) :
        id \in KbArticleIds, name \in TagNames }

\* Those with neither tags nor a collection: every kind without a score,
\* and votes with a score in and out of range
ScoreBodies ==
    { b \in FeedbackBodies :
        /\ b.tags = <<>> /\ b.collection_id = 0
        /\ b.score = 0 \/ b.feedback_type \in {"upvote", "saved"} }

\* The awaited statements of the endpoint after its INSERT INTO
\* article_feedback, in the order of the code, and those of receiveFeedback;
\* "select" is the loop over the tags
StagesOf(fn) ==
    CASE fn = "endpoint" ->
            <<"update", "override", "select", "collection", "url", "article">>
      [] fn = "receiveFeedback" -> <<"ranking", "collection", "select">>
      [] OTHER -> <<"select">>

\* Whether the call of frame f executes the statement
Takes(f, stage) ==
    CASE stage = "update" ->
            f.body.feedback_type \in {"upvote", "downvote", "saved", "archived"}
      [] stage = "override" -> f.body.score >= 1 /\ f.body.score <= 100
      [] stage = "ranking" -> f.body.score # 0
      [] stage = "select" -> f.body.tags # <<>>
      [] stage = "collection" -> f.body.collection_id # 0
      [] stage = "url" -> f.agentNamespace
      [] OTHER -> TRUE

\* The place of the statement awaited by f among those of its function
StageIndex(f) ==
    LET stage == IF f.pc \in {"insert", "map"} THEN "select" ELSE f.pc
    IN  IF \E j \in 1..Len(StagesOf(f.fn)) : StagesOf(f.fn)[j] = stage
        THEN CHOOSE j \in 1..Len(StagesOf(f.fn)) : StagesOf(f.fn)[j] = stage
        ELSE 0

\* The function of frame f is over: receiveFeedback running for the
\* endpoint (stub.fetch) lets the endpoint go on to its last SELECT,
\* whether it returned or rejected; any other call is over with its outcome
HandlerEnds(f, outcome) ==
    IF f.fn = "receiveFeedback" /\ f.by = "endpoint"
    THEN [f EXCEPT !.fn = "endpoint", !.pc = "article", !.ti = 1, !.tag = 0]
    ELSE [NoHandler EXCEPT !.by = f.by, !.outcome = outcome]

\* A statement of frame f raised: nothing in receiveFeedback or
\* createAndAssignTags catches it, and the handler of the endpoint replies
\* success: false
HandlerThrows(f) == HandlerEnds(f, "threw")

\* The statement f awaited is done: the next one its function executes is
\* sent, or the function returns
HandlerResume(f) ==
    LET statements == StagesOf(f.fn)
        rest == { j \in (StageIndex(f) + 1)..Len(statements) :
                    Takes(f, statements[j]) }
    IN  IF rest = {} THEN HandlerEnds(f, "returned")
        ELSE [f EXCEPT !.pc = statements[CHOOSE j \in rest : \A h \in rest : j <= h],
                       !.ti = 1, !.tag = 0]

\* The tag of the loop of frame f is done: the SELECT of the next one is
\* sent, or the loop is over
NextTag(f) ==
    IF f.ti < Len(f.body.tags)
    THEN [f EXCEPT !.ti = @ + 1, !.tag = 0, !.pc = "select"]
    ELSE HandlerResume([f EXCEPT !.pc = "select"])

\* Entry of createAndAssignTags(articleId, tags) called by process for
\* request r: the SELECT of the first tag is sent, or there is no tag
createAndAssignTagsEnter(r, articleId, tags) ==
    LET f == [NoHandler EXCEPT !.by = r, !.fn = "createAndAssignTags",
                               !.body = FeedbackData(articleId, "none", 0, tags, 0)]
    IN  IF tags = <<>> THEN HandlerEnds(f, "returned")
        ELSE [f EXCEPT !.pc = "select"]

\* POST /api/agent/feedback arrives in frame w with a valid body: the
\* INSERT INTO article_feedback is sent
FeedbackPost(w, bodies, namespaces) ==
    /\ handlers[w].pc = "idle" /\ handlers[w].by \notin Requests
    /\ \E body \in bodies, agentNamespace \in namespaces :
          handlers' = [handlers EXCEPT ![w] =
                          [NoHandler EXCEPT !.pc = "feedback", !.by = "endpoint",
                                            !.fn = "endpoint", !.body = body,
                                            !.agentNamespace = agentNamespace]]
    /\ UNCHANGED <<kbVars, ragVars, durable, feedbackLog, collectionItems>>

\* ArticleAgent.receiveFeedback(feedbackData) is called in frame w (a
\* /feedback request to the Durable Object): the INSERT INTO
\* article_feedback is sent
receiveFeedback(w, bodies) ==
    /\ handlers[w].pc = "idle" /\ handlers[w].by \notin Requests
    /\ \E body \in bodies :
          handlers' = [handlers EXCEPT ![w] =
                          [NoHandler EXCEPT !.pc = "feedback",
                                            !.by = "receiveFeedback",
                                            !.fn = "receiveFeedback",
                                            !.body = body]]
    /\ UNCHANGED <<kbVars, ragVars, durable, feedbackLog, collectionItems>>

\* an upsert: the new row takes the place of the latest one
recordFeedbackOverwrites(log, row) ==
    IF log = <<>> THEN <<row>> ELSE [log EXCEPT ![Len(log)] = row]

\* INSERT INTO article_feedback: the three handlers issue the same statement
recordFeedback(log, row) == Append(log, row)

\* The INSERT INTO article_feedback of frame w is executed: the row holds
\* the JSON of what the function was given; or the statement raises
FeedbackInsert(w) ==
    LET f == handlers[w]
        shape == IF f.fn = "endpoint" THEN "body" ELSE "FeedbackData"
    IN  /\ f.pc = "feedback"
        /\ \/ /\ Len(feedbackLog) < MaxEvents
              /\ feedbackLog' = recordFeedback(feedbackLog,
                                    FeedbackRow(f.body.article_id, f.body.feedback_type,
                                                shape, f.body.score))
              /\ handlers' = [handlers EXCEPT ![w] = HandlerResume(f)]
           \/ /\ handlers' = [handlers EXCEPT ![w] = HandlerThrows(f)]
              /\ UNCHANGED feedbackLog
        /\ UNCHANGED <<kbVars, ragVars, durable, collectionItems>>

MinOf(a, b) == IF a < b THEN a ELSE b
MaxOf(a, b) == IF a > b THEN a ELSE b

\* The UPDATE the endpoint issues for the feedback type
EndpointUpdate(row, feedback_type) ==
    CASE feedback_type = "upvote" ->
            [row EXCEPT !["ranking"] = MinOf(100, @ + 10)]
      [] feedback_type = "downvote" ->
            [row EXCEPT !["ranking"] = MaxOf(1, @ - 10)]
      [] feedback_type = "saved" ->
            [row EXCEPT !["ranking"] = MinOf(100, @ + 5), !["status"] = "read"]
      [] feedback_type = "archived" ->
            [row EXCEPT !["status"] = "archived"]
      [] OTHER -> row

\* The endpoint's manual ranking override: body.score in 1..100
EndpointOverride(row, score) ==
    IF score # 0 /\ score >= 1 /\ score <= 100
    THEN [row EXCEPT !["ranking"] = score] ELSE row

\* An UPDATE of the article of frame w is executed, giving the row
\* written(stored row); or the statement raises
UpdateByHandler(w, written(_)) ==
    LET f == handlers[w]
        id == f.body.article_id
    IN  /\ \/ /\ articles' = IF id \in DOMAIN articles
                             THEN [articles EXCEPT ![id] = written(@)]
                             ELSE articles
              /\ handlers' = [handlers EXCEPT ![w] = HandlerResume(f)]
           \/ /\ handlers' = [handlers EXCEPT ![w] = HandlerThrows(f)]
              /\ UNCHANGED articles
        /\ UNCHANGED <<tagTable, tagMap, r2Objects, agent>>
        /\ UNCHANGED <<ragVars, durable, feedbackLog, collectionItems>>

\* The UPDATE of the endpoint for the feedback type is executed
FeedbackUpdate(w) ==
    /\ handlers[w].pc = "update"
    /\ UpdateByHandler(w, LAMBDA row : EndpointUpdate(row, handlers[w].body.feedback_type))

\* The UPDATE of the endpoint's manual override is executed
FeedbackOverride(w) ==
    /\ handlers[w].pc = "override"
    /\ UpdateByHandler(w, LAMBDA row : EndpointOverride(row, handlers[w].body.score))

\* The UPDATE of receiveFeedback is executed: the ranking becomes the score
\* as it was given
receiveFeedbackRanking(w) ==
    /\ handlers[w].pc = "ranking"
    /\ UpdateByHandler(w, LAMBDA row : [row EXCEPT !["ranking"] = handlers[w].body.score])

\* SELECT id FROM article_tags WHERE name = ? returns to frame w: a row
\* goes on to the mapping, none to the INSERT; or the statement raises
GetOrCreateTagSelect(w) ==
    LET f == handlers[w]
        found == SelectTagByName(tagTable, f.body.tags[f.ti])
    IN  /\ f.pc = "select"
        /\ \/ handlers' = [handlers EXCEPT ![w] =
                              [f EXCEPT !.tag = found,
                                        !.pc = IF found = 0 THEN "insert" ELSE "map"]]
           \/ handlers' = [handlers EXCEPT ![w] = HandlerThrows(f)]
        /\ UNCHANGED <<kbVars, ragVars, durable, feedbackLog, collectionItems>>

\* INSERT INTO article_tags ... RETURNING id for frame w: the name is
\* UNIQUE, so the statement raises when a row with the name exists by now;
\* otherwise the row is created, or no row comes back and the tag is skipped
GetOrCreateTagInsert(w) ==
    LET f == handlers[w]
        tagName == f.body.tags[f.ti]
    IN  /\ f.pc = "insert"
        /\ IF UniqueViolation(tagTable, tagName)
           THEN /\ handlers' = [handlers EXCEPT ![w] = HandlerThrows(f)]
                /\ UNCHANGED tagTable
           ELSE \/ /\ Len(tagTable) < MaxTags
                   /\ tagTable' = InsertTag(tagTable, tagName)
                   /\ handlers' = [handlers EXCEPT ![w] =
                                      [f EXCEPT !.tag = Len(tagTable'), !.pc = "map"]]
                \/ /\ handlers' = [handlers EXCEPT ![w] = NextTag(f)]
                   /\ UNCHANGED tagTable
                \/ /\ handlers' = [handlers EXCEPT ![w] = HandlerThrows(f)]
                   /\ UNCHANGED tagTable
        /\ UNCHANGED <<tagMap, articles, r2Objects, agent>>
        /\ UNCHANGED <<ragVars, durable, feedbackLog, collectionItems>>

\* INSERT OR IGNORE INTO article_tag_map for frame w, after which the loop
\* goes on with the next tag; or the statement raises
GetOrCreateTagMap(w) ==
    LET f == handlers[w]
    IN  /\ f.pc = "map"
        /\ \/ /\ tagMap' = tagMap \cup { <<f.body.article_id, f.tag>> }
              /\ handlers' = [handlers EXCEPT ![w] = NextTag(f)]
           \/ /\ handlers' = [handlers EXCEPT ![w] = HandlerThrows(f)]
              /\ UNCHANGED tagMap
        /\ UNCHANGED <<tagTable, articles, r2Objects, agent>>
        /\ UNCHANGED <<ragVars, durable, feedbackLog, collectionItems>>

\* INSERT OR IGNORE INTO collection_items of frame w is executed (a pair
\* that is there is left alone); or the statement raises
FeedbackCollection(w) ==
    LET f == handlers[w]
    IN  /\ f.pc = "collection"
        /\ \/ /\ collectionItems' = collectionItems \cup
                                       { <<f.body.collection_id, f.body.article_id>> }
              /\ handlers' = [handlers EXCEPT ![w] = HandlerResume(f)]
           \/ /\ handlers' = [handlers EXCEPT ![w] = HandlerThrows(f)]
              /\ UNCHANGED collectionItems
        /\ UNCHANGED <<kbVars, ragVars, durable, feedbackLog>>

\* SELECT url FROM articles returns to the endpoint in frame w: with the
\* row, the body is sent to the Durable Object of the URL, whose
\* receiveFeedback sends its INSERT; without one, or when the SELECT or the
\* fetch fails, the error is logged and the endpoint goes on
FeedbackForward(w) ==
    LET f == handlers[w]
    IN  /\ f.pc = "url"
        /\ \/ /\ f.body.article_id \in DOMAIN articles
              /\ handlers' = [handlers EXCEPT ![w] =
                                 [f EXCEPT !.fn = "receiveFeedback", !.pc = "feedback"]]
           \/ handlers' = [handlers EXCEPT ![w] = HandlerResume(f)]
        /\ UNCHANGED <<kbVars, ragVars, durable, feedbackLog, collectionItems>>

\* SELECT * FROM articles returns to the endpoint in frame w, which replies
\* success: true; or the statement raises and the reply is success: false
FeedbackReply(w) ==
    LET f == handlers[w]
    IN  /\ f.pc = "article"
        /\ \/ handlers' = [handlers EXCEPT ![w] = HandlerResume(f)]
           \/ handlers' = [handlers EXCEPT ![w] = HandlerThrows(f)]
        /\ UNCHANGED <<kbVars, ragVars, durable, feedbackLog, collectionItems>>

\* The store as the agents find it: some tags, one article
KbInit ==
    /\ tagTable \in InitialTagTables
    /\ tagMap = {}
    /\ articles \in InitialArticles
    /\ r2Objects = {}
    /\ agent = [s \in Agents |-> NewAgent]
    /\ IngestIdle

TagInit == RagIdle /\ KbInit /\ articles = [a \in KbArticleIds |-> StoredRow("old")]

SaveInit == RagIdle /\ KbInit

\* Tag registry specification: one agent loads its context and reconciles
\* tags while the other writers of article_tags run
TagNext ==
    \/ \E s \in {"s1"} : loadGlobalContextCall(s)
    \/ \E s \in {"s1"} : loadGlobalContextRegistry(s)
    \/ \E s \in {"s1"} : loadGlobalContextStats(s)
    \/ \E s \in {"s1"} : loadGlobalContextReturns(s)
    \/ \E s \in {"s1"} : reconcileTagsCall(s)
    \/ \E s \in {"s1"} : reconcileTagsFind(s)
    \/ \E s \in {"s1"} : reconcileTagsInsert(s)
    \/ \E s \in {"s1"} : reconcileTagsPush(s)
    \/ \E s \in {"s1"} : reconcileTagsReturns(s)
    \/ \E w \in {"w1"} : FeedbackPost(w, TagBodies, {FALSE})
    \/ \E w \in {"w1"} : receiveFeedback(w, TagBodies)
    \/ \E w \in {"w1"} : FeedbackInsert(w)
    \/ \E w \in {"w1"} : GetOrCreateTagSelect(w)
    \/ \E w \in {"w1"} : GetOrCreateTagInsert(w)
    \/ \E w \in {"w1"} : GetOrCreateTagMap(w)
    \/ \E w \in {"w1"} : FeedbackReply(w)

TagSpec == TagInit /\ [][TagNext]_vars

\* Writers specification: feedback requests and receiveFeedback calls
\* that add a tag, overlapping at their awaits
WriterNext ==
    \/ \E w \in Writers : FeedbackPost(w, TagBodies, {FALSE})
    \/ \E w \in Writers : receiveFeedback(w, TagBodies)
    \/ \E w \in Writers : FeedbackInsert(w)
    \/ \E w \in Writers : GetOrCreateTagSelect(w)
    \/ \E w \in Writers : GetOrCreateTagInsert(w)
    \/ \E w \in Writers : GetOrCreateTagMap(w)
    \/ \E w \in Writers : FeedbackReply(w)

WriterSpec == TagInit /\ [][WriterNext]_vars

\* Concurrent sessions specification: every agent reconciles tags, each
\* with its own snapshot of the registry
RaceNext ==
    \/ \E s \in Agents : reconcileTagsCall(s)
    \/ \E s \in Agents : loadGlobalContextRegistry(s)
    \/ \E s \in Agents : loadGlobalContextStats(s)
    \/ \E s \in Agents : loadGlobalContextReturns(s)
    \/ \E s \in Agents : reconcileTagsFind(s)
    \/ \E s \in Agents : reconcileTagsInsert(s)
    \/ \E s \in Agents : reconcileTagsPush(s)
    \/ \E s \in Agents : reconcileTagsReturns(s)

RaceSpec == TagInit /\ [][RaceNext]_vars

\* Article specification: one agent saves analyses, reconciling their tags
SaveNext ==
    \/ \E s \in {"s1"} : saveArticleAnalysisCall(s)
    \/ \E s \in {"s1"} : saveArticleAnalysisStore(s)
    \/ \E s \in {"s1"} : saveArticleAnalysisResume(s)
    \/ \E s \in {"s1"} : loadGlobalContextRegistry(s)
    \/ \E s \in {"s1"} : loadGlobalContextStats(s)
    \/ \E s \in {"s1"} : loadGlobalContextReturns(s)
    \/ \E s \in {"s1"} : reconcileTagsFind(s)
    \/ \E s \in {"s1"} : reconcileTagsInsert(s)
    \/ \E s \in {"s1"} : reconcileTagsPush(s)
    \/ \E s \in {"s1"} : reconcileTagsReturns(s)
    \/ \E s \in {"s1"} : saveArticleAnalysisMap(s)
    \/ \E s \in {"s1"} : saveArticleAnalysisR2(s)

SaveSpec == SaveInit /\ [][SaveNext]_vars

(***************************************************************************)
(* Re-evaluation                                                           *)
(***************************************************************************)
EvalArticleIds == {1, 2}
MissingArticleId == 3

\* reEvaluateArticle(articleId) called on agent s
reEvaluateArticleCall(s) ==
    /\ agent[s].op = "idle"
    /\ \E articleId \in EvalArticleIds \cup {MissingArticleId} :
          agent' = [agent EXCEPT ![s] =
                       reEvaluateArticleEnter(
                           [@ EXCEPT !.op = "reEvaluate", !.attempted = <<>>,
                                     !.caught = {}, !.batchOutcome = "none",
                                     !.rowBefore = IF articleId \in DOMAIN articles
                                                   THEN articles[articleId]
                                                   ELSE NoArticle],
                           articleId)]
    /\ UNCHANGED <<tagTable, tagMap, articles, r2Objects>>
    /\ UNCHANGED <<ragVars, ingestVars>>

\* getArticleById returns: no row throws "Article not found"; with a row
\* the criteria are built from the feedback patterns of the context and
\* performStricterAnalysis calls askAI; the read may raise
reEvaluateArticleFetch(s) ==
    LET a == agent[s]
    IN  /\ a.pc = "fetching"
        /\ \/ /\ a.articleId \in DOMAIN articles
              /\ agent' = [agent EXCEPT ![s] =
                              [a EXCEPT !.article = articles[a.articleId],
                                        !.criteria = buildStricterCriteria(a.context),
                                        !.pc = "analysing"]]
           \/ /\ a.articleId \notin DOMAIN articles
              /\ agent' = [agent EXCEPT ![s] = reEvaluateArticleThrows(a)]
           \/ agent' = [agent EXCEPT ![s] = reEvaluateArticleThrows(a)]
        /\ UNCHANGED <<tagTable, tagMap, articles, r2Objects>>
        /\ UNCHANGED <<ragVars, ingestVars>>

\* askAI returns to performStricterAnalysis; reEvaluateArticle builds its
\* result, applies the downgrade when there is one, and returns
reEvaluateArticleReturns(s) ==
    LET a == agent[s]
    IN  /\ a.pc = "analysing"
        /\ \E response \in AIResponses :
              LET reAnalysis == performStricterAnalysis(a.article, response)
                  evaluation == ReEvaluationResult(a.article, reAnalysis)
                  b == [a EXCEPT !.response = response, !.reEval = evaluation,
                                 !.evalOutcome = "returned"]
              IN  /\ agent' = [agent EXCEPT ![s] =
                                  IF a.op = "batch"
                                  THEN [b EXCEPT !.bi = @ + 1, !.pc = "batchLoop"]
                                  ELSE [b EXCEPT !.op = "idle", !.pc = "idle"]]
                  /\ IF evaluation.shouldDowngrade
                     THEN \/ articles' = [articles EXCEPT ![a.articleId] =
                                             applyDowngrade(@, evaluation)]
                          \/ UNCHANGED articles
                     ELSE UNCHANGED articles
        /\ UNCHANGED <<tagTable, tagMap, r2Objects>>
        /\ UNCHANGED <<ragVars, ingestVars>>

\* SELECT id FROM articles WHERE status = 'unread' ORDER BY created_at DESC
\* LIMIT ?: the statement orders by created_at alone, and rows written in the
\* same millisecond carry the same created_at, so the order of the rows is
\* whichever one the store produces among rows that tie; with every row in
\* a tie that is any order of the unread ids.  The result is the first
\* `limit` ids of that order.
RecentUnread(table, limit) ==
    LET unread == { n \in DOMAIN table : table[n]["status"] = "unread" }
        k == Min(limit, Cardinality(unread))
    IN  { q \in [1..k -> unread] : \A i, j \in 1..k : i # j => q[i] # q[j] }

\* batchReEvaluate(limit) called on agent s: the SELECT returns the ids,
\* or raises and the call rejects
batchReEvaluateCall(s) ==
    /\ agent[s].op = "idle"
    /\ \E limit \in {1, 10} :
          \/ \E ids \in RecentUnread(articles, limit) :
                agent' = [agent EXCEPT ![s] =
                          [@ EXCEPT !.op = "batch", !.pc = "batchLoop",
                                    !.batch = ids,
                                    !.bi = 1, !.attempted = <<>>, !.caught = {},
                                    !.evalOutcome = "none",
                                    !.batchOutcome = "none"]]
          \/ agent' = [agent EXCEPT ![s] =
                          [@ EXCEPT !.batch = <<>>, !.attempted = <<>>,
                                    !.caught = {}, !.batchOutcome = "threw"]]
    /\ UNCHANGED <<tagTable, tagMap, articles, r2Objects>>
    /\ UNCHANGED <<ragVars, ingestVars>>

\* The loop of batchReEvaluate: reEvaluateArticle for the next id, or the
\* return after the last one
batchReEvaluateStep(s) ==
    LET a == agent[s]
    IN  /\ a.pc = "batchLoop"
        /\ agent' = [agent EXCEPT ![s] =
                        IF a.bi <= Len(a.batch)
                        THEN reEvaluateArticleEnter(
                                 [a EXCEPT !.rowBefore = articles[a.batch[a.bi]]],
                                 a.batch[a.bi])
                        ELSE [a EXCEPT !.batchOutcome = "returned",
                                       !.op = "idle", !.pc = "idle"]]
        /\ UNCHANGED <<tagTable, tagMap, articles, r2Objects>>
        /\ UNCHANGED <<ragVars, ingestVars>>

\* The store as the evaluator finds it: two articles, scored or not
EvalRows ==
    { ScoredRow(0, "NULL", "unread"), ScoredRow(90, "High ROI", "unread"),
      ScoredRow(90, "High ROI", "read") }
EvalInit ==
    /\ RagIdle
    /\ tagTable = <<>>
    /\ tagMap = {}
    /\ articles \in [EvalArticleIds -> EvalRows]
    /\ r2Objects = {}
    /\ agent = [s \in Agents |-> NewAgent]
    /\ IngestIdle

\* Re-evaluation specification: one evaluator agent re-evaluates single
\* articles and batches
EvalNext ==
    \/ \E s \in {"s1"} : reEvaluateArticleCall(s)
    \/ \E s \in {"s1"} : batchReEvaluateCall(s)
    \/ \E s \in {"s1"} : batchReEvaluateStep(s)
    \/ \E s \in {"s1"} : loadGlobalContextRegistry(s)
    \/ \E s \in {"s1"} : loadGlobalContextStats(s)
    \/ \E s \in {"s1"} : loadGlobalContextReturns(s)
    \/ \E s \in {"s1"} : reEvaluateArticleFetch(s)
    \/ \E s \in {"s1"} : reEvaluateArticleReturns(s)
EvalSpec == EvalInit /\ [][EvalNext]_vars

(***************************************************************************)
(* One agent session with two calls in progress.  The two records of       *)
(* agent are the frames of two calls on one instance: this.globalContext   *)
(* is one field, so what one call assigns or pushes is what the other      *)
(* reads after its next await.                                             *)
(***************************************************************************)
\* reconcileTags(suggestedTags) is called on the session, as its call c;
\* each frame makes one such call
reconcileTagsInSession(c) ==
    /\ agent[c].suggestedTags = <<>>
    /\ reconcileTagsCall(c)

\* The session is one instance with two frames; its context is not loaded
\* yet, or was loaded from the store as it is
SessionInit ==
    /\ RagIdle
    /\ tagTable \in InitialTagTables
    /\ tagMap = {}
    /\ articles = [a \in KbArticleIds |-> StoredRow("old")]
    /\ r2Objects = {}
    /\ IngestIdle
    /\ \/ agent = [c \in Agents |-> [NewAgent EXCEPT !.instance = "session"]]
       \/ \E registry \in RegistryOrders(tagTable, tagMap) :
             agent = [c \in Agents |->
                         [NewAgent EXCEPT !.instance = "session",
                                          !.globalContext = TRUE,
                                          !.tagRegistry = registry,
                                          !.feedbackPatterns =
                                              FeedbackStats(articles, feedbackLog)]]

\* Session specification: calls of loadGlobalContext and reconcileTags on
\* one agent instance, overlapping at their awaits
SessionNext ==
    \/ \E c \in Agents : loadGlobalContextCall(c)
    \/ \E c \in Agents : loadGlobalContextRegistry(c)
    \/ \E c \in Agents : loadGlobalContextStats(c)
    \/ \E c \in Agents : loadGlobalContextReturns(c)
    \/ \E c \in Agents : reconcileTagsInSession(c)
    \/ \E c \in Agents : reconcileTagsFind(c)
    \/ \E c \in Agents : reconcileTagsInsert(c)
    \/ \E c \in Agents : reconcileTagsPush(c)
    \/ \E c \in Agents : reconcileTagsReturns(c)
SessionSpec == SessionInit /\ [][SessionNext]_vars

(***************************************************************************)
(* The stricter criteria of a re-evaluation                                *)
(***************************************************************************)
MaxTotal == 5            \* the store holds at most MaxTotal articles

\* createArticleRecord of the ArticleAgent of another URL: the store gains
\* a record in status processing
createArticleRecord ==
    LET id == Cardinality(DOMAIN articles) + 1
    IN  /\ id <= MaxTotal
        /\ articles' = [a \in DOMAIN articles \cup {id} |->
                           IF a = id THEN NewArticleRow ELSE articles[a]]
        /\ UNCHANGED <<tagTable, tagMap, r2Objects, agent>>
        /\ UNCHANGED <<ragVars, ingestVars>>

\* The feedback of the store: an upvote for each of the first `upvoted`
\* articles and a downvote for each of the first `downvoted`
FeedbackOf(upvoted, downvoted) ==
    [k \in 1..upvoted |-> FeedbackRow(k, "upvote", "body", 0)]
    \o [k \in 1..downvoted |-> FeedbackRow(k, "downvote", "body", 0)]

\* The store holds some articles, some of them voted on; the evaluator
\* has not been called
CriteriaInit ==
    /\ RagIdle
    /\ tagTable = <<>>
    /\ tagMap = {}
    /\ r2Objects = {}
    /\ agent = [s \in Agents |-> NewAgent]
    /\ durable = NewDurableObject
    /\ handlers = [w \in Writers |-> NoHandler]
    /\ collectionItems = {}
    /\ \E total \in 0..MaxTotal, upvoted \in 0..MaxTotal, downvoted \in 0..1 :
          /\ upvoted <= total /\ downvoted <= total
          /\ articles = [a \in 1..total |-> ScoredRow(90, "High ROI", "read")]
          /\ feedbackLog = FeedbackOf(upvoted, downvoted)

\* Criteria specification: one evaluator re-evaluates articles of a store
\* that gains articles
CriteriaNext ==
    \/ \E s \in {"s1"} : reEvaluateArticleCall(s)
    \/ \E s \in {"s1"} : loadGlobalContextRegistry(s)
    \/ \E s \in {"s1"} : loadGlobalContextStats(s)
    \/ \E s \in {"s1"} : loadGlobalContextReturns(s)
    \/ \E s \in {"s1"} : reEvaluateArticleFetch(s)
    \/ \E s \in {"s1"} : reEvaluateArticleReturns(s)
    \/ createArticleRecord
CriteriaSpec == CriteriaInit /\ [][CriteriaNext]_vars

(***************************************************************************)
(* Article processing: the Durable Object of one URL                       *)
(*                                                                         *)
(* The object runs one JavaScript turn at a time, but a request waiting    *)
(* for D1, the rendering API or the model lets the next request in, so the *)
(* process calls of two requests interleave at every await.  this.agentState *)
(* belongs to the object and is shared by its requests.                    *)
(***************************************************************************)
\* Math.max(1, Math.min(100, parsed.ranking || 50))
ClampRanking(parsed) ==
    LET v == IF parsed = 0 THEN DefaultRanking ELSE parsed
    IN  IF v < 1 THEN 1 ELSE IF v > 100 THEN 100 ELSE v

\* the row of the URL, 0 when there is none (url TEXT NOT NULL UNIQUE)
checkExistingArticle(table) ==
    IF DOMAIN table = {} THEN 0 ELSE CHOOSE id \in DOMAIN table : TRUE

\* The text the model answered with, parsed: json is "invalid" for a text
\* JSON.parse rejects, and a property the object lacks is "undefined"
\* (ranking 0, suggested_tags <<>>)
ParsedAnalysis(json, title, author, published_date, summary, description, time_roi, ranking, suggested_tags) ==
    [json |-> json, title |-> title, author |-> author,
     published_date |-> published_date, summary |-> summary,
     description |-> description, time_roi |-> time_roi, ranking |-> ranking,
     suggested_tags |-> suggested_tags]

\* What the model may answer: no JSON, the object {}, a full analysis, one
\* with a ranking out of range, one with a description for a summary
AnalysisResponses ==
    { ParsedAnalysis("invalid", "undefined", "undefined", "undefined", "undefined",
                     "undefined", "undefined", 0, <<>>),
      ParsedAnalysis("object", "undefined", "undefined", "undefined", "undefined",
                     "undefined", "undefined", 0, <<>>),
      ParsedAnalysis("object", "T", "Au", "2025-01-15", "S", "undefined",
                     "Low ROI: generic", 85, << <<"a">> >>),
      ParsedAnalysis("object", "undefined", "undefined", "undefined", "S",
                     "undefined", "High ROI", 150, << <<"a">> >>),
      ParsedAnalysis("object", "undefined", "undefined", "undefined", "undefined",
                     "D", "undefined", 0, <<>>) }

\* parsed.x || null
OrJsNull(v) == IF v \in {"undefined", ""} THEN "NULL" ELSE v

\* analyzeWithAI once AI.run has resolved: the fields of the parsed answer
\* with their defaults, or the fallback analysis when parsing threw
analyzeWithAI(parsed) ==
    IF parsed.json = "invalid"
    THEN AIAnalysis("NULL", "NULL", "NULL", "Content analysis unavailable",
                    "Unknown: AI analysis failed", DefaultRanking, <<>>)
    ELSE AIAnalysis(OrJsNull(parsed.title), OrJsNull(parsed.author),
                    OrJsNull(parsed.published_date),
                    IF parsed.summary \notin {"undefined", ""} THEN parsed.summary
                    ELSE IF parsed.description \notin {"undefined", ""}
                    THEN parsed.description
                    ELSE "No summary available",
                    IF parsed.time_roi \in {"undefined", ""} THEN "Unknown"
                    ELSE parsed.time_roi,
                    ClampRanking(parsed.ranking),
                    parsed.suggested_tags)

\* UPDATE articles SET title = COALESCE(?, title), description =
\* COALESCE(?, description), author = COALESCE(?, author), published_date =
\* COALESCE(?, published_date), time_roi = ?, ranking = ?, status = 'unread'
updateArticleWithAI(row, aiAnalysis) ==
    [row EXCEPT !["title"] = COALESCE(OrJsNull(aiAnalysis.title), @),
                !["description"] = COALESCE(aiAnalysis.summary, @),
                !["author"] = COALESCE(OrJsNull(aiAnalysis.author), @),
                !["published_date"] = COALESCE(OrJsNull(aiAnalysis.published_date), @),
                !["time_roi"] = aiAnalysis.time_roi,
                !["ranking"] = aiAnalysis.ranking,
                !["status"] = "unread"]

\* The artifacts storeArtifacts stores, in the order of the code, and the
\* key of each: articles/<articleId>/<urlHash>.<type>
ArtifactTypes == <<"pdf", "md", "json">>
UrlHash == "0123456789abcdef"
ArtifactKey(articleId, k) ==
    "articles/" \o ToString(articleId) \o "/" \o UrlHash \o "." \o ArtifactTypes[k]

\* The catch block of process for request r, up to its await: the shared
\* agentState is marked, and when it holds an article id the UPDATE of
\* that record is sent; without one process returns the failure
processCatch(r) ==
    /\ durable' = [durable EXCEPT
                      !.agentState.status = "error",
                      !.run[r] = IF durable.agentState.articleId # 0
                                 THEN [@ EXCEPT !.pc = "catching",
                                                !.errorId = durable.agentState.articleId]
                                 ELSE [@ EXCEPT !.pc = "done", !.result = "failure"]]
    /\ UNCHANGED articles

\* The UPDATE of the catch block returns and process returns the failure;
\* or the UPDATE raises inside the catch block, and the promise of
\* process is rejected with the record left as it was
processCatchUpdate(r) ==
    /\ durable.run[r].pc = "catching"
    /\ \/ /\ articles' = IF durable.run[r].errorId \in DOMAIN articles
                          THEN [articles EXCEPT ![durable.run[r].errorId]["status"] = "error"]
                          ELSE articles
          /\ durable' = [durable EXCEPT !.run[r].pc = "done",
                                        !.run[r].result = "failure"]
       \/ /\ durable' = [durable EXCEPT !.run[r].pc = "done",
                                        !.run[r].result = "rejected"]
          /\ UNCHANGED articles
    /\ UNCHANGED <<tagTable, tagMap, r2Objects, agent>>
    /\ UNCHANGED <<ragVars, feedbackLog, handlers, collectionItems>>

\* The queue consumer delivers message r: agent.fetch(".../process"), and
\* process(url) starts for it: this.agentState is replaced
processCall(r) ==
    /\ durable.run[r].pc = "idle"
    /\ durable' = [durable EXCEPT
                      !.agentState = [status |-> "processing", articleId |-> 0],
                      !.run[r] = [NoRun EXCEPT !.pc = "checking"]]
    /\ UNCHANGED <<kbVars, ragVars, feedbackLog, handlers, collectionItems>>

\* checkExistingArticle returns: a record for the URL ends the run with
\* success, none goes on to createArticleRecord; the SELECT may raise
processCheck(r) ==
    /\ durable.run[r].pc = "checking"
    /\ \/ /\ durable' = [durable EXCEPT !.run[r] =
                   IF checkExistingArticle(articles) # 0
                   THEN [@ EXCEPT !.pc = "done", !.result = "success",
                                  !.articleId = checkExistingArticle(articles)]
                   ELSE [@ EXCEPT !.pc = "creating"]]
          /\ UNCHANGED articles
       \/ processCatch(r)
    /\ UNCHANGED <<tagTable, tagMap, r2Objects, agent>>
    /\ UNCHANGED <<ragVars, feedbackLog, handlers, collectionItems>>

\* createArticleRecord: the INSERT is executed; it raises when the URL has
\* a record by now, otherwise the record is created in status processing
\* and returned to the run
processCreate(r) ==
    /\ durable.run[r].pc = "creating"
    /\ IF checkExistingArticle(articles) # 0
       THEN processCatch(r)
       ELSE \/ LET id == Cardinality(DOMAIN articles) + 1
               IN  /\ articles' = [a \in DOMAIN articles \cup {id} |->
                                     IF a = id THEN NewArticleRow
                                     ELSE articles[a]]
                   /\ durable' = [durable EXCEPT !.run[r].articleId = id,
                                                 !.run[r].pc = "created"]
            \/ processCatch(r)
    /\ UNCHANGED <<tagTable, tagMap, r2Objects, agent>>
    /\ UNCHANGED <<ragVars, feedbackLog, handlers, collectionItems>>

\* process resumes with the record createArticleRecord returned: its id is
\* put into the this.agentState of the moment and the markdown of the page
\* is requested
processCreated(r) ==
    /\ durable.run[r].pc = "created"
    /\ durable' = [durable EXCEPT !.agentState.articleId = durable.run[r].articleId,
                                  !.run[r].pc = "rendering"]
    /\ UNCHANGED <<kbVars, ragVars, feedbackLog, handlers, collectionItems>>

\* A step of process for request r that writes no table: the run goes on
\* at pc next, or what it awaited failed and the catch block runs
processAwait(r, at, next) ==
    /\ durable.run[r].pc = at
    /\ \/ /\ durable' = [durable EXCEPT !.run[r].pc = next]
          /\ UNCHANGED articles
       \/ processCatch(r)
    /\ UNCHANGED <<tagTable, tagMap, r2Objects, agent>>
    /\ UNCHANGED <<ragVars, feedbackLog, handlers, collectionItems>>

\* renderWithBrowserAPI: the markdown of the page arrives and the PDF is
\* requested; or the request fails, or the markdown is empty
renderMarkdown(r) == processAwait(r, "rendering", "printing")

\* renderWithBrowserAPI: the PDF arrives, the page is rendered, and
\* analyzeWithAI sends its SELECT of the collections; or the request fails,
\* or the PDF is empty
renderPdf(r) ==
    /\ durable.run[r].pc = "printing"
    /\ \/ /\ durable' = [durable EXCEPT !.run[r].pc = "collections",
                                        !.rendered = Min(@ + 1, 2)]
          /\ UNCHANGED articles
       \/ processCatch(r)
    /\ UNCHANGED <<tagTable, tagMap, r2Objects, agent>>
    /\ UNCHANGED <<ragVars, feedbackLog, handlers, collectionItems>>

\* analyzeWithAI: the collections arrive and the model is called; or the
\* SELECT raises
analyzeCollections(r) == processAwait(r, "collections", "analysing")

\* analyzeWithAI: the model answers and the analysis is built from the
\* answer, after which storeArtifacts puts the PDF; or AI.run rejects,
\* which analyzeWithAI does not catch
analyzeReturns(r) ==
    /\ durable.run[r].pc = "analysing"
    /\ \/ /\ \E parsed \in AnalysisResponses :
                durable' = [durable EXCEPT !.run[r].aiAnalysis = analyzeWithAI(parsed),
                                           !.run[r].artifact = 1,
                                           !.run[r].pc = "putting"]
          /\ UNCHANGED articles
       \/ processCatch(r)
    /\ UNCHANGED <<tagTable, tagMap, r2Objects, agent>>
    /\ UNCHANGED <<ragVars, feedbackLog, handlers, collectionItems>>

\* storeArtifacts: ARTICLE_STORAGE.put of the artifact the run is at
\* returns and its INSERT INTO article_r2_objects is sent; or the put fails
storeArtifactsPut(r) == processAwait(r, "putting", "storing")

\* storeArtifacts: the INSERT INTO article_r2_objects of the artifact the
\* run is at is executed, after which the next artifact is put, or, after
\* the last, updateArticleWithAI sends its UPDATE; or the INSERT raises,
\* with the rows of the artifacts before it stored
storeArtifactsInsert(r) ==
    LET run == durable.run[r]
        r2_key == ArtifactKey(run.articleId, run.artifact)
    IN  /\ run.pc = "storing"
        /\ \/ /\ ~R2KeyTaken(r2Objects, r2_key)
              /\ r2Objects' = r2Objects \cup
                                 {R2Row(run.articleId, r2_key, ArtifactTypes[run.artifact])}
              /\ durable' = [durable EXCEPT !.run[r] =
                                IF run.artifact < Len(ArtifactTypes)
                                THEN [@ EXCEPT !.artifact = @ + 1, !.pc = "putting"]
                                ELSE [@ EXCEPT !.pc = "updating"]]
              /\ UNCHANGED articles
           \/ processCatch(r) /\ UNCHANGED r2Objects
        /\ UNCHANGED <<tagTable, tagMap, agent>>
        /\ UNCHANGED <<ragVars, feedbackLog, handlers, collectionItems>>

\* The UPDATE of updateArticleWithAI is executed: the record gets the
\* analysis and status unread; or the UPDATE raises
processUpdate(r) ==
    LET run == durable.run[r]
    IN  /\ run.pc = "updating"
        /\ \/ /\ articles' = [articles EXCEPT ![run.articleId] =
                                 updateArticleWithAI(@, run.aiAnalysis)]
              /\ durable' = [durable EXCEPT !.run[r].pc = "updated"]
           \/ processCatch(r)
        /\ UNCHANGED <<tagTable, tagMap, r2Objects, agent>>
        /\ UNCHANGED <<ragVars, feedbackLog, handlers, collectionItems>>

\* process resumes after updateArticleWithAI and calls createAndAssignTags,
\* which sends its first SELECT, or returns at once for no tags, and then
\* process sets this.agentState.status and returns success
processUpdated(r) ==
    LET run == durable.run[r]
    IN  /\ run.pc = "updated"
        /\ IF run.aiAnalysis.suggested_tags = <<>>
           THEN /\ durable' = [durable EXCEPT !.agentState.status = "completed",
                                              !.run[r].pc = "done",
                                              !.run[r].result = "success"]
                /\ UNCHANGED handlers
           ELSE /\ durable' = [durable EXCEPT !.run[r].pc = "tagging"]
                /\ handlers' = [handlers EXCEPT ![WriterOf(r)] =
                                   createAndAssignTagsEnter(r, run.articleId,
                                       run.aiAnalysis.suggested_tags)]
        /\ UNCHANGED <<kbVars, ragVars, feedbackLog, collectionItems>>

\* createAndAssignTags returns to process, which returns success; or it
\* rejects and the catch block runs
processTags(r) ==
    LET f == handlers[WriterOf(r)]
    IN  /\ durable.run[r].pc = "tagging"
        /\ f.by = r /\ f.pc = "idle"
        /\ IF f.outcome = "returned"
           THEN /\ durable' = [durable EXCEPT !.agentState.status = "completed",
                                              !.run[r].pc = "done",
                                              !.run[r].result = "success"]
                /\ UNCHANGED articles
           ELSE processCatch(r)
        /\ handlers' = [handlers EXCEPT ![WriterOf(r)] = NoHandler]
        /\ UNCHANGED <<tagTable, tagMap, r2Objects, agent>>
        /\ UNCHANGED <<ragVars, feedbackLog, collectionItems>>

\* The queue consumer reads the response of process for message r:
\* message.ack() when result.success; message.retry() otherwise and when
\* the request failed, after which the message is delivered again
queueSettles(r) ==
    /\ durable.run[r].pc = "done"
    /\ durable' = [durable EXCEPT !.run[r] =
                      IF @.result = "success"
                      THEN [@ EXCEPT !.pc = "acked"]
                      ELSE [NoRun EXCEPT !.pc = "idle"]]
    /\ UNCHANGED <<kbVars, ragVars, feedbackLog, handlers, collectionItems>>

\* The URL has no record yet, or has one from an earlier run
ProcInit ==
    /\ RagIdle
    /\ tagTable = <<>>
    /\ tagMap = {}
    /\ articles \in { <<>>, <<ScoredRow(85, "High ROI", "unread")>>,
                       <<ScoredRow(0, "NULL", "error")>> }
    /\ r2Objects = {}
    /\ agent = [s \in Agents |-> NewAgent]
    /\ IngestIdle

\* Processing specification: the requests for one URL, delivered to its
\* Durable Object in any order and overlapping
ProcNext ==
    \/ \E r \in Requests : processCall(r)
    \/ \E r \in Requests : processCheck(r)
    \/ \E r \in Requests : processCreate(r)
    \/ \E r \in Requests : processCreated(r)
    \/ \E r \in Requests : renderMarkdown(r)
    \/ \E r \in Requests : renderPdf(r)
    \/ \E r \in Requests : analyzeCollections(r)
    \/ \E r \in Requests : analyzeReturns(r)
    \/ \E r \in Requests : storeArtifactsPut(r)
    \/ \E r \in Requests : storeArtifactsInsert(r)
    \/ \E r \in Requests : processUpdate(r)
    \/ \E r \in Requests : processUpdated(r)
    \/ \E r \in Requests : processTags(r)
    \/ \E r \in Requests : processCatchUpdate(r)
    \/ \E w \in Writers : GetOrCreateTagSelect(w)
    \/ \E w \in Writers : GetOrCreateTagInsert(w)
    \/ \E w \in Writers : GetOrCreateTagMap(w)
    \/ \E r \in Requests : queueSettles(r)
ProcSpec == ProcInit /\ [][ProcNext]_vars

(***************************************************************************)
(* Feedback: the endpoint and ArticleAgent.receiveFeedback above, and      *)
(* HumanInTheLoopAgent.processFeedback, a call on an agent instance        *)
(***************************************************************************)
\* The feedbacks processFeedback may be given
UserFeedbacks ==
    { UserFeedback(id, kind, manualRanking, tags, collectionId) :
        id \in FbArticleIds \cup {MissingArticleId}, kind \in FeedbackKinds,
        manualRanking \in {<<>>} \cup { <<n>> : n \in FeedbackScores },
        tags \in {<<>>, << <<"a">> >>}, collectionId \in {0} \cup CollectionIds }

\* Those with neither tags nor a collection: every kind without a manual
\* ranking, votes with one in and out of range, one for no article
ScoreFeedbacks ==
    { f \in UserFeedbacks :
        /\ f.tags = <<>> /\ f.collectionId = 0
        /\ f.manualRanking = <<>> \/ f.feedbackType \in {"upvote", "saved"}
        /\ f.articleId = MissingArticleId
              => f.feedbackType = "upvote" /\ f.manualRanking = <<>> }

\* processFeedback(feedback) called on agent s: loadGlobalContext first
processFeedback(s, feedbacks) ==
    /\ agent[s].op = "idle"
    /\ \E feedback \in feedbacks :
          agent' = [agent EXCEPT ![s] =
                       [@ EXCEPT !.op = "feedback", !.feedback = feedback,
                                 !.processed = "none", !.saved = "none",
                                 !.article = NoArticle, !.data = NoArticleData,
                                 !.rowBefore = NoArticle,
                                 !.pc = IF agent[s].globalContext THEN "reading"
                                        ELSE "querying"]]
    /\ UNCHANGED <<tagTable, tagMap, articles, r2Objects>>
    /\ UNCHANGED <<ragVars, ingestVars>>

\* getArticleById returns to processFeedback: without a row it returns
\* false, with one recordFeedback sends its INSERT; or the read raises
processFeedbackRead(s) ==
    LET a == agent[s]
    IN  /\ a.pc = "reading"
        /\ \/ agent' = [agent EXCEPT ![s] =
                           IF a.feedback.articleId \in DOMAIN articles
                           THEN [a EXCEPT !.article = articles[a.feedback.articleId],
                                          !.pc = "recording"]
                           ELSE processFeedbackEnds(a, "false")]
           \/ agent' = [agent EXCEPT ![s] = processFeedbackThrows(a)]
        /\ UNCHANGED <<tagTable, tagMap, articles, r2Objects>>
        /\ UNCHANGED <<ragVars, ingestVars>>

\* The updates applyFeedbackToArticle builds from the feedback and from the
\* article it was given: the id, the status of that article unless the
\* feedback sets one, a ranking only where the feedback sets one, the tags
applyFeedbackToArticle(feedback, article) ==
    LET ranking ==
            CASE feedback.feedbackType = "upvote" ->
                    MinOf(100, OrRanking(article["ranking"]) + 10)
              [] feedback.feedbackType = "downvote" ->
                    MaxOf(1, OrRanking(article["ranking"]) - 10)
              [] feedback.feedbackType = "saved" ->
                    MinOf(100, OrRanking(article["ranking"]) + 5)
              [] OTHER -> 0
        status ==
            CASE feedback.feedbackType = "saved" -> "read"
              [] feedback.feedbackType = "archived" -> "archived"
              [] OTHER -> article["status"]
    IN  ArticleData(feedback.articleId,
                    [NoFields EXCEPT !["ranking"] =
                        IF feedback.manualRanking # <<>>
                        THEN MaxOf(1, MinOf(100, feedback.manualRanking[1]))
                        ELSE ranking],
                    status, feedback.tags)

\* The INSERT of recordFeedback is executed, and applyFeedbackToArticle
\* calls saveArticleAnalysis with the updates it builds from the article
\* processFeedback read; or the INSERT raises
processFeedbackRecord(s) ==
    LET a == agent[s]
        id == a.feedback.articleId
    IN  /\ a.pc = "recording"
        /\ \/ /\ Len(feedbackLog) < MaxEvents
              /\ feedbackLog' = recordFeedback(feedbackLog,
                                    IF a.feedback.manualRanking = <<>>
                                    THEN FeedbackRow(id, a.feedback.feedbackType,
                                                     "UserFeedback", 0)
                                    ELSE FeedbackRow(id, a.feedback.feedbackType,
                                                     "UserFeedback.manualRanking",
                                                     a.feedback.manualRanking[1]))
              /\ agent' = [agent EXCEPT ![s] =
                              saveArticleAnalysisEnter(a,
                                  applyFeedbackToArticle(a.feedback, a.article),
                                  NoR2Keys,
                                  IF id \in DOMAIN articles THEN articles[id]
                                  ELSE NoArticle)]
           \/ /\ agent' = [agent EXCEPT ![s] = processFeedbackThrows(a)]
              /\ UNCHANGED feedbackLog
        /\ UNCHANGED <<tagTable, tagMap, articles, r2Objects>>
        /\ UNCHANGED <<ragVars, durable, handlers, collectionItems>>

\* INSERT OR IGNORE INTO collection_items of applyFeedbackToArticle is
\* executed and processFeedback returns true; or the statement raises
processFeedbackCollection(s) ==
    LET a == agent[s]
    IN  /\ a.pc = "collection"
        /\ \/ /\ collectionItems' = collectionItems \cup
                                       { <<a.feedback.collectionId, a.feedback.articleId>> }
              /\ agent' = [agent EXCEPT ![s] = processFeedbackEnds(a, "true")]
           \/ /\ agent' = [agent EXCEPT ![s] = processFeedbackThrows(a)]
              /\ UNCHANGED collectionItems
        /\ UNCHANGED <<tagTable, tagMap, articles, r2Objects>>
        /\ UNCHANGED <<ragVars, durable, feedbackLog, handlers>>

\* One article, scored or not, and no feedback yet
FeedbackInit ==
    /\ RagIdle
    /\ tagTable = <<>>
    /\ tagMap = {}
    /\ articles \in [FbArticleIds ->
                        { ScoredRow(0, "NULL", "error"), ScoredRow(5, "Low ROI", "unread"),
                          ScoredRow(50, "High ROI", "unread"),
                          ScoredRow(95, "High ROI", "archived") }]
    /\ r2Objects = {}
    /\ agent = [s \in Agents |-> NewAgent]
    /\ IngestIdle

\* Feedback specification: one request to the endpoint or to the Durable
\* Object and one call of processFeedback, overlapping at their awaits
FeedbackNext ==
    \/ \E w \in {"w1"} : handlers[w].by = "none" /\ FeedbackPost(w, ScoreBodies, BOOLEAN)
    \/ \E w \in {"w1"} : handlers[w].by = "none" /\ receiveFeedback(w, ScoreBodies)
    \/ \E w \in {"w1"} : FeedbackInsert(w)
    \/ \E w \in {"w1"} : FeedbackUpdate(w)
    \/ \E w \in {"w1"} : FeedbackOverride(w)
    \/ \E w \in {"w1"} : receiveFeedbackRanking(w)
    \/ \E w \in {"w1"} : FeedbackForward(w)
    \/ \E w \in {"w1"} : FeedbackReply(w)
    \/ \E s \in {"s1"} : agent[s].processed = "none" /\ processFeedback(s, ScoreFeedbacks)
    \/ \E s \in {"s1"} : loadGlobalContextRegistry(s)
    \/ \E s \in {"s1"} : loadGlobalContextStats(s)
    \/ \E s \in {"s1"} : loadGlobalContextReturns(s)
    \/ \E s \in {"s1"} : processFeedbackRead(s)
    \/ \E s \in {"s1"} : processFeedbackRecord(s)
    \/ \E s \in {"s1"} : saveArticleAnalysisStore(s)
    \/ \E s \in {"s1"} : saveArticleAnalysisResume(s)
FeedbackSpec == FeedbackInit /\ [][FeedbackNext]_vars

\* Handlers specification: one request to the endpoint or to the Durable
\* Object with any feedback it may be given, its tags and its collection
HandlersNext ==
    \/ \E w \in {"w1"} : handlers[w].by = "none" /\ FeedbackPost(w, FeedbackBodies, BOOLEAN)
    \/ \E w \in {"w1"} : handlers[w].by = "none" /\ receiveFeedback(w, FeedbackBodies)
    \/ \E w \in {"w1"} : FeedbackInsert(w)
    \/ \E w \in {"w1"} : FeedbackUpdate(w)
    \/ \E w \in {"w1"} : FeedbackOverride(w)
    \/ \E w \in {"w1"} : receiveFeedbackRanking(w)
    \/ \E w \in {"w1"} : GetOrCreateTagSelect(w)
    \/ \E w \in {"w1"} : GetOrCreateTagInsert(w)
    \/ \E w \in {"w1"} : GetOrCreateTagMap(w)
    \/ \E w \in {"w1"} : FeedbackCollection(w)
    \/ \E w \in {"w1"} : FeedbackForward(w)
    \/ \E w \in {"w1"} : FeedbackReply(w)
HandlersSpec == FeedbackInit /\ [][HandlersNext]_vars

\* User feedback specification: one call of processFeedback with any
\* feedback it may be given, its tags and its collection
UserFeedbackNext ==
    \/ \E s \in {"s1"} : agent[s].processed = "none" /\ processFeedback(s, UserFeedbacks)
    \/ \E s \in {"s1"} : loadGlobalContextRegistry(s)
    \/ \E s \in {"s1"} : loadGlobalContextStats(s)
    \/ \E s \in {"s1"} : loadGlobalContextReturns(s)
    \/ \E s \in {"s1"} : processFeedbackRead(s)
    \/ \E s \in {"s1"} : processFeedbackRecord(s)
    \/ \E s \in {"s1"} : saveArticleAnalysisStore(s)
    \/ \E s \in {"s1"} : saveArticleAnalysisResume(s)
    \/ \E s \in {"s1"} : reconcileTagsFind(s)
    \/ \E s \in {"s1"} : reconcileTagsInsert(s)
    \/ \E s \in {"s1"} : reconcileTagsPush(s)
    \/ \E s \in {"s1"} : reconcileTagsReturns(s)
    \/ \E s \in {"s1"} : saveArticleAnalysisMap(s)
    \/ \E s \in {"s1"} : processFeedbackCollection(s)
UserFeedbackSpec == FeedbackInit /\ [][UserFeedbackNext]_vars

(***************************************************************************)
(* Properties                                                              *)
(***************************************************************************)
Range(s) == { s[i] : i \in 1..Len(s) }
IsPrefix(s, t) == Len(s) <= Len(t) /\ s = SubSeq(t, 1, Len(s))

RunStarted == stages # <<>>
RunEnded == RunStarted /\ pc \in {"returned", "responded"}
LimitInRange(limit) == limit \in MinLimit..MaxLimit

\* C1: answerQuery never lets a fault escape.  Whatever the inference,
\* retrieval and store calls do, a run that ends has returned a value, and
\* when the run failed that value is success = false with an error message
\* and neither an answer nor references.
C1_NoFaultEscapes ==
    /\ ~result.threw
    /\ RunEnded => result.returned
    /\ (RunStarted /\ Last(stages) = "FAILED") => result.returned /\ ~result.success
    /\ (result.returned /\ ~result.success) =>
          result.error # "" /\ ~result.hasData /\ ~result.hasRetrieved

\* a store read raised during context construction and the run returned
C1_Witness ==
    /\ calls.storeThrew
    /\ result.returned /\ ~result.success /\ result.error = StoreErrorMessage

\* C2: when retrieval returns zero references, answerQuery returns success
\* with confidence 0, no citation, exactly 3 follow-up suggestions and no
\* retrieved reference, and the synthesis makes no reasoning call and no
\* structuring call.
C2_ZeroResults ==
    (calls.search = "returned" /\ retrievedArticles = <<>>) =>
        /\ result.returned /\ result.success /\ result.hasData
        /\ result.data.confidenceType = "integer" /\ result.data.confidence_score = 0
        /\ result.data.citedType = "array" /\ result.data.cited_article_ids = <<>>
        /\ result.data.follow_up_suggestions = 3
        /\ result.hasRetrieved /\ result.retrieved_articles = <<>>
        /\ calls.reasoning = 0 /\ calls.structuring = 0
        /\ gw.op = "embed"

\* the index answered with no match and the canned answer went out
C2_Witness ==
    /\ calls.search = "returned" /\ retrievedArticles = <<>>
    /\ gw.success
    /\ result.returned /\ result.data = EmptyResultAnswer

PipelineStages ==
    <<"OPTIMIZING", "RETRIEVING", "CONTEXT_BUILDING", "REASONING", "STRUCTURING", "DONE">>

\* the stage a remote inference call of the run belongs to
StageOfCall(g) ==
    CASE g.caller = "optimize" -> "OPTIMIZING"
      [] g.caller = "search" -> "RETRIEVING"
      [] g.caller = "synthesis" /\ g.op = "reason" -> "REASONING"
      [] OTHER -> "STRUCTURING"

\* C3: the stages of a run happen only in the order OPTIMIZING, RETRIEVING,
\* then EMPTY_RESULT or CONTEXT_BUILDING, REASONING, STRUCTURING, DONE, with
\* FAILED possible instead of the next stage; a remote call is made only
\* in its own stage; structuring is called only after a reasoning call gave
\* a text; context construction starts only after retrieval returned
\* references; a run that ended is in exactly one of DONE, EMPTY_RESULT, FAILED.
C3_StageOrder ==
    /\ \/ IsPrefix(stages, PipelineStages)
       \/ stages = <<"OPTIMIZING", "RETRIEVING", "EMPTY_RESULT">>
       \/ \E k \in 1..5 : stages = Append(SubSeq(PipelineStages, 1, k), "FAILED")
    /\ (gw.status = "running" /\ gw.caller # "direct") =>
          RunStarted /\ Last(stages) = StageOfCall(gw)
    /\ calls.structuring > 0 => calls.reasoned
    /\ "STRUCTURING" \in Range(stages) => calls.reasoned
    /\ "CONTEXT_BUILDING" \in Range(stages) =>
          calls.search = "returned" /\ retrievedArticles # <<>>
    /\ RunStarted =>
          (RunEnded <=> Last(stages) \in {"DONE", "EMPTY_RESULT", "FAILED"})
    /\ RunEnded =>
          /\ Last(stages) = "DONE" => result.success /\ result.retrieved_articles # <<>>
          /\ Last(stages) = "EMPTY_RESULT" => result.success /\ result.data = EmptyResultAnswer
          /\ Last(stages) = "FAILED" => ~result.success

\* a run went through every stage
C3_Witness == stages = PipelineStages /\ result.success /\ calls.structuring > 1

\* C4: query optimization failure is never fatal.  When no optimizer call
\* gave a text (every attempt threw or came back empty), the run still
\* calls retrieval, and with exactly the user's question as the query.
C4_OptimizationFallback ==
    /\ (searchCalls # <<>> /\ ~calls.optimized) => searchCalls[1].query = userQuestion
    /\ (RunStarted /\ pc # "optimizing") => Len(searchCalls) = 1
    /\ stages # <<"OPTIMIZING", "FAILED">>

\* all three attempts of the optimizer failed and retrieval was called with
\* the question, surrounding blank and quote included
C4_Witness ==
    /\ pc = "embedding" /\ ~calls.optimized /\ defaultRetries = DefaultRetryCount
    /\ userQuestion = <<" ", "b", "q">>
    /\ searchCalls = << [query |-> userQuestion, limit |-> retrievalLimit] >>

\* every attempt the synthesis was allowed was made and none was usable
ReasoningExhausted == calls.reasoning = defaultRetries /\ ~calls.reasoned
StructuringExhausted == calls.structuring = defaultRetries /\ ~calls.structured

\* C5 as stated, for the runs in which retrieval returned and no store read
\* raised: answerQuery returns success = false if and only if the
\* structuring stage failed after exhausting its retries.  The code fails
\* the call as well when the reasoning stage of the synthesis runs out of
\* attempts, before any structuring call, and when the payload the
\* structuring stage parsed cannot be read.
C5_OnlyStructuringFails ==
    (result.returned /\ calls.search = "returned" /\ ~calls.storeThrew) =>
        (~result.success <=> StructuringExhausted)

\* a StructuredAnswer with every field of the schema's type and range
FullyPopulated(p) ==
    /\ p.json = "object"
    /\ p.thinking_process = "string" /\ p.answer_markdown = "string"
    /\ p.confidenceType = "integer" /\ p.confidence_score \in 0..100
    /\ p.citedType = "array"
    /\ p.follow_up_suggestions = 3

\* C6 as stated: every result with success = true carries a fully populated
\* StructuredAnswer, whatever payload the structuring model returned.
C6_SuccessIsFullyPopulated ==
    (result.returned /\ result.success) => result.hasData /\ FullyPopulated(result.data)

\* C7 as stated: every id a successful answer cites is the record id of a
\* reference retrieval returned in the same run.
C7_CitationsAreRetrieved ==
    (result.returned /\ result.success /\ result.data.citedType = "array") =>
        Range(result.data.cited_article_ids) \subseteq Range(retrievedArticles)

RequestMade == via \in {"direct", "endpoint"}

AttemptError(op, o) ==
    IF o.kind = "throw" THEN o.msg
    ELSE IF op = "reason" THEN "Empty response from reasoning model"
    ELSE IF op = "embed" THEN "Empty response from embedding model"
    ELSE IF op = "structure" /\ o.kind \in {"empty", "blank"}
    THEN "Empty response from structured model"
    ELSE IF op = "askAI" /\ o.payload.json = "nobrace" THEN "No JSON found in AI response"
    ELSE SyntaxErrorMessage

\* the failure an operation reports for the error of its last attempt
FailureReport(op, n, error) ==
    IF op = "askAI" THEN error
    ELSE ModelLabel(op) \o " model failed after " \o ToString(n)
         \o " attempts: " \o error

\* C9: a gateway operation never throws to its caller.  For every retry
\* count n >= 1 and every sequence of remote outcomes it ends by returning
\* a tagged result; a success is the usable outcome of its last call, and
\* a failure comes after n calls and carries the error of the last attempt.
C9_GatewayReturnsTaggedResult ==
    /\ gw.status \in {"idle", "running", "returned"}
    /\ (gw.status = "returned" /\ gw.maxRetries >= 1) =>
          IF gw.success
          THEN Usable(gw.op, gw.schema, gw.lastOutcome) /\ gw.error = ""
          ELSE /\ gw.remoteCalls = gw.maxRetries
               /\ ~Usable(gw.op, gw.schema, gw.lastOutcome)
               /\ gw.error = FailureReport(gw.op, gw.maxRetries,
                                           AttemptError(gw.op, gw.lastOutcome))

\* askAI, called on its own, failed three times, the last time on a thrown error
C9_Witness ==
    /\ gw.op = "askAI" /\ gw.caller = "direct" /\ gw.status = "returned" /\ ~gw.success
    /\ gw.remoteCalls = DefaultRetryCount /\ gw.lastOutcome.kind = "throw"
    /\ gw.error = gw.lastOutcome.msg

\* C10: a gateway operation with retry count n makes at most n remote
\* calls, makes no call after a usable outcome, and reports failure only
\* after n calls none of which was usable; when no count is given n is 3
\* for askAI and the instance's default for the WorkerAI operations, which
\* is 3 unless the constructor was given another.
C10_AtMostNCalls ==
    /\ gw.remoteCalls <= (IF gw.maxRetries > 0 THEN gw.maxRetries ELSE 0)
    /\ (gw.remoteCalls > 0 /\ Usable(gw.op, gw.schema, gw.lastOutcome)) =>
          gw.status = "returned" /\ gw.success
    /\ gw.status = "running" => gw.remoteCalls = gw.attempt
    /\ (gw.status = "returned" /\ ~gw.success) =>
          /\ gw.remoteCalls = (IF gw.maxRetries > 0 THEN gw.maxRetries ELSE 0)
          /\ gw.remoteCalls > 0 => ~Usable(gw.op, gw.schema, gw.lastOutcome)
    /\ (gw.op # "none" /\ ~gw.retriesGiven) =>
          gw.maxRetries = (IF gw.op = "askAI" THEN DefaultRetryCount ELSE defaultRetries)
    /\ (gw.op # "none" /\ gw.retriesGiven) => gw.maxRetries \in 0..MaxRetries
    /\ defaultRetries \in {DefaultRetryCount} \cup 1..MaxRetries

\* with the default of three attempts, the second call succeeded and no
\* third one was made
C10_Witness ==
    /\ gw.status = "returned" /\ gw.success /\ ~gw.retriesGiven
    /\ gw.maxRetries = DefaultRetryCount /\ gw.remoteCalls = 2
    /\ gw.waits = <<BackoffBaseMs>>

\* the parsed payload is an object with the five properties of the schema,
\* each of the schema's type
ConformsToSchema(p) ==
    /\ p.json = "object"
    /\ p.thinking_process = "string" /\ p.answer_markdown = "string"
    /\ p.confidenceType = "integer"
    /\ p.citedType = "array"
    /\ p.follow_up_suggestions >= 0

\* C11 as stated: structure() returns success only for a payload that
\* parses as an object conforming to the schema; valid JSON that is no
\* object, or an object without the required fields, is a failed attempt.
C11_StructureValidates ==
    (gw.op = "structure" /\ gw.status = "returned" /\ gw.success) =>
        ConformsToSchema(gw.data)

\* C12: after the i-th failed attempt (i = 1..n-1) a gateway operation
\* waits i * 1000 ms before attempt i+1, and it does not wait after the
\* n-th failed attempt: the waits so far are 1000, 2000, ... one per failed
\* attempt that was followed by another attempt.
C12_LinearBackoff ==
    /\ \A i \in 1..Len(gw.waits) : gw.waits[i] = i * BackoffBaseMs
    /\ gw.status = "running" => Len(gw.waits) = gw.remoteCalls
    /\ (gw.status = "returned" /\ gw.remoteCalls > 0) =>
          Len(gw.waits) = gw.remoteCalls - 1
    /\ gw.remoteCalls = 0 => gw.waits = <<>>

\* generateStructured failed three times: it waited 1000 ms and 2000 ms,
\* and nothing after the third failure
C12_Witness ==
    /\ gw.op = "structure" /\ gw.status = "returned" /\ ~gw.success
    /\ gw.remoteCalls = DefaultRetryCount
    /\ gw.waits = <<BackoffBaseMs, 2 * BackoffBaseMs>>

(***************************************************************************)
(* Properties of the knowledge base                                        *)
(***************************************************************************)
\* entries the registry of agent a held before the reconcileTags call in
\* progress (or last made) appended its own
RegistryBefore(a) == Len(a.tagRegistry) - Len(a.created)

\* C13: within one reconcile call at most one tag is created per distinct
\* name (trimmed, ignoring case), none is created for a name whose trimmed
\* lowercase form equals the lowercased name of a registry entry, and a
\* repeated suggestion resolves to the tag created for the first one.
C13_AtMostOneTagPerName ==
    \A s \in Agents :
        LET a == agent[s]
        IN  /\ \A p, q \in 1..Len(a.created) :
                  p # q => normalizedTag(a.created[p]) # normalizedTag(a.created[q])
            /\ \A p \in 1..Len(a.created), k \in 1..RegistryBefore(a) :
                  toLowerCase(a.tagRegistry[k].name) # normalizedTag(a.created[p])
            /\ \A p, q \in 1..Len(a.results) :
                  (p < q /\ normalizedTag(a.suggestedTags[a.resultOf[p]])
                              = normalizedTag(a.suggestedTags[a.resultOf[q]]))
                  => a.results[q].tagId = a.results[p].tagId /\ ~a.results[q].isNew
            /\ Cardinality({ q \in 1..Len(a.results) : a.results[q].isNew })
                  = Len(a.created)

\* "A" was created and the later suggestion " a" resolved to it
C13_Witness ==
    LET a == agent["s1"]
    IN  /\ a.outcome = "returned" /\ a.op = "idle"
        /\ a.suggestedTags = <<<<"A">>, <<" ", "a">>>>
        /\ a.created = <<<<"A">>>>
        /\ Len(a.results) = 2
        /\ a.results[1].isNew /\ ~a.results[2].isNew
        /\ a.results[2].tagId = a.results[1].tagId

\* C14 as stated: the sequence reconcile returns holds exactly one entry
\* per distinct canonical name of the suggestions.
C14_OneEntryPerName ==
    \A s \in Agents :
        LET a == agent[s]
        IN  (a.op = "idle" /\ a.outcome = "returned" /\ a.failedAt = {}) =>
                /\ \A p, q \in 1..Len(a.results) :
                      p # q => a.results[p].tagId # a.results[q].tagId
                /\ Len(a.results) =
                      Cardinality({ normalizedTag(a.suggestedTags[j]) :
                                      j \in 1..Len(a.suggestedTags) })

\* C15: when the trimmed, lowercased suggestion equals the lowercased name
\* of a registry entry, reconcile returns that entry's id with isNew =
\* false and the name as stored in the registry, not the suggestion's
\* casing, and creates nothing for it.
C15_MatchUsesStoredTag ==
    \A s \in Agents :
        LET a == agent[s]
        IN  /\ \A q \in 1..Len(a.results) :
                  LET k == existingTag(a.tagRegistry,
                                       normalizedTag(a.suggestedTags[a.resultOf[q]]))
                  IN  /\ k # 0
                      /\ a.results[q].tagId = a.tagRegistry[k].id
                      /\ a.results[q].tagName = a.tagRegistry[k].name
                      /\ k <= RegistryBefore(a) => ~a.results[q].isNew
            /\ \A j \in 1..(a.i - 1) :
                  existingTag(a.tagRegistry, normalizedTag(a.suggestedTags[j]))
                      \in 1..RegistryBefore(a)
                  => /\ j \notin a.failedAt
                     /\ \E q \in 1..Len(a.results) : a.resultOf[q] = j
                     /\ \A p \in 1..Len(a.created) :
                           normalizedTag(a.created[p]) # normalizedTag(a.suggestedTags[j])

\* the registry held "A"; the suggestion " a" got its id and the name "A",
\* and no tag was created
C15_Witness ==
    LET a == agent["s1"]
    IN  /\ a.outcome = "returned" /\ a.op = "idle"
        /\ a.suggestedTags # <<>> /\ a.results # <<>>
        /\ a.suggestedTags[1] = <<" ", "a">>
        /\ a.results[1].tagName = <<"A">> /\ ~a.results[1].isNew
        /\ a.created = <<>>

\* C16 as stated: when creating a tag fails for one suggestion, reconcile
\* does not fail and every other suggestion of the batch is in the result.
C16_FailedCreationDropsOne ==
    \A s \in Agents :
        LET a == agent[s]
        IN  (a.op = "idle" /\ a.failedAt # {}) =>
                /\ a.outcome # "createThrew"
                /\ \A j \in 1..Len(a.suggestedTags) :
                      j \notin a.failedAt => \E q \in 1..Len(a.results) : a.resultOf[q] = j

\* C17 as stated: no two rows of the tag table have names equal ignoring case.
C17_NamesUniqueIgnoringCase ==
    \A p, q \in 1..Len(tagTable) :
        p # q => toLowerCase(tagTable[p].name) # toLowerCase(tagTable[q].name)

\* the snapshot agent a reconciled against had no entry for this name
Unknown(a, name) ==
    existingTag(SubSeq(a.tagRegistry, 1, RegistryBefore(a)), normalizedTag(name)) = 0

\* C18 as stated: when two sessions whose snapshots lack a name both
\* reconcile it, neither call fails, both return the same tag id and one
\* tag exists for the name afterwards.
C18_ConcurrentCreateIsIdempotent ==
    \A s, t \in Agents :
        LET a == agent[s]
            b == agent[t]
        IN  (/\ s # t
             /\ a.op = "idle" /\ b.op = "idle"
             /\ a.suggestedTags = <<<<"a">>>> /\ b.suggestedTags = <<<<"a">>>>
             /\ a.outcome \in {"returned", "createThrew"}
             /\ b.outcome \in {"returned", "createThrew"}
             /\ a.failedAt = {} \/ a.outcome = "createThrew"
             /\ b.failedAt = {} \/ b.outcome = "createThrew"
             /\ Unknown(a, <<"a">>) /\ Unknown(b, <<"a">>))
            => /\ a.outcome = "returned" /\ b.outcome = "returned"
               /\ Len(a.results) = 1 /\ Len(b.results) = 1
               /\ a.results[1].tagId = b.results[1].tagId
               /\ Cardinality({ k \in 1..Len(tagTable) :
                                  toLowerCase(tagTable[k].name) = <<"a">> }) = 1

\* C19 as stated: loadGlobalContext is idempotent within a session: the
\* aggregation queries run once per agent instance, so no two calls on one
\* instance are running them and none runs them while the instance holds
\* a context; and once the instance holds a context, every later load
\* returns that same snapshot: the cached registry is never replaced, it
\* only grows by the rows its reconcile calls append.
C19_LoadIsIdempotent ==
    /\ [](\A s \in Agents :
            agent[s].pc \in Loading =>
                /\ ~agent[s].globalContext
                /\ \A t \in InstanceFrames(agent, s) \ {s} :
                      agent[t].pc \notin Loading)
    /\ [][\A s \in Agents :
            agent[s].globalContext =>
                /\ agent'[s].globalContext
                /\ IsPrefix(agent[s].tagRegistry, agent'[s].tagRegistry)]_vars

\* articleData gives a value for column f
Supplied(data, f) ==
    IF f = "ranking" THEN data.fields[f] # 0
    ELSE data.fields[f] \notin {"undefined", "null"}

\* C20: saveArticleAnalysis never overwrites a column it was not given: a
\* step changes title, description, author, published_date, time_roi or
\* ranking of an article only if it is the UPDATE of a saveArticleAnalysis
\* call for that article whose articleData supplies the column.
C20_AbsentFieldsKept ==
    [][\A id \in KbArticleIds, f \in ArticleFields :
          articles'[id][f] # articles[id][f] =>
              \E s \in Agents :
                  /\ agent[s].pc = "updating"
                  /\ agent'[s].pc # "updating"
                  /\ agent[s].data.id = id
                  /\ Supplied(agent[s].data, f)]_vars

\* a save that supplied only the title returned true: the title is new,
\* the other columns still hold what was stored
C20_Witness ==
    LET a == agent["s1"]
    IN  /\ a.saved = "true"
        /\ a.data.fields["title"] = "new" /\ a.data.fields["author"] = "undefined"
        /\ articles[1]["title"] = "new"
        /\ articles[1]["description"] = "old"
        /\ articles[1]["ranking"] = StoredRanking
        /\ articles[1]["status"] = "read"

(***************************************************************************)
(* Properties of context construction                                      *)
(***************************************************************************)
\* the references constructContext has looked up so far
LookedUp == SubSeq(retrievedArticles, 1, Min(ctxIndex - 1, Len(retrievedArticles)))

\* C21: a retrieved reference whose record is not in the store gets no
\* block, every looked-up reference whose record is there gets one, and
\* when no store read raised the run goes on to the reasoning stage: a
\* missing record never fails the run.
C21_StaleReferenceOmitted ==
    ("CONTEXT_BUILDING" \in Range(stages) /\ ~calls.storeThrew) =>
        /\ \A j \in 1..Len(LookedUp) :
              LookedUp[j] \in Range(contextParts) <=> LookedUp[j] \in store
        /\ ctxIndex > Len(retrievedArticles) => "REASONING" \in Range(stages)

\* the first retrieved reference had no record, the second had one: its
\* block was built and the run reached the reasoning stage
C21_Witness ==
    /\ Len(retrievedArticles) = 2
    /\ retrievedArticles[1] \notin store
    /\ retrievedArticles[2] \in store
    /\ contextParts = <<retrievedArticles[2]>>
    /\ "REASONING" \in Range(stages)

\* C22: the blocks are in retrieval rank order: the context parts are the
\* looked-up references that have a record, in the order retrieval
\* returned them.
C22_RankOrder ==
    "CONTEXT_BUILDING" \in Range(stages) =>
        contextParts = SelectSeq(LookedUp, LAMBDA id : id \in store)

\* two references, both with records, retrieved as 2 then 1
C22_Witness ==
    /\ retrievedArticles = <<2, 1>>
    /\ store = {1, 2}
    /\ contextParts = <<2, 1>>

(***************************************************************************)
(* Properties of re-evaluation                                             *)
(***************************************************************************)
\* a single reEvaluateArticle call of agent a has returned its result
ReEvaluated(a) == a.op = "idle" /\ a.evalOutcome = "returned" /\ a.batch = <<>>

\* C23: in every result reEvaluateArticle returns, shouldDowngrade is true
\* exactly when newRanking is strictly below originalRanking.
C23_ShouldDowngradeIff ==
    \A s \in Agents :
        agent[s].evalOutcome = "returned" =>
            (agent[s].reEval.shouldDowngrade
                <=> agent[s].reEval.newRanking < agent[s].reEval.originalRanking)

\* a record ranked 90 was re-evaluated: the result reports 90 and 90 and
\* no downgrade
C23_Witness ==
    LET a == agent["s1"]
    IN  /\ ReEvaluated(a)
        /\ a.rowBefore["ranking"] = 90
        /\ a.reEval.originalRanking = 90 /\ a.reEval.newRanking = 90
        /\ ~a.reEval.shouldDowngrade

\* C24 as stated: when the stricter analysis scores the record below its
\* prior score, the stored score and label become the new ones and the
\* status stays what it was.
C24_DowngradeWritten ==
    \A s \in Agents :
        LET a == agent[s]
        IN  (/\ ReEvaluated(a)
             /\ a.response.success
             /\ a.response.ranking < OrRanking(a.rowBefore["ranking"]))
            => /\ articles[a.articleId]["ranking"] = a.response.ranking
               /\ articles[a.articleId]["time_roi"] = a.response.time_roi
               /\ articles[a.articleId]["status"] = a.rowBefore["status"]

\* C25 as stated: flagForHumanReview is true exactly when the confidence
\* the stricter analysis came back with is below 0.7.
C25_FlagIffLowConfidence ==
    \A s \in Agents :
        LET a == agent[s]
        IN  (ReEvaluated(a) /\ a.response.success) =>
                (a.reEval.flagForHumanReview
                    <=> a.response.confidence < ReviewThreshold)

\* C26: batchReEvaluate calls reEvaluateArticle for the selected records
\* one after another in the order selected; a re-evaluation that throws is
\* caught, the next record is attempted, and once the records are selected
\* the batch call does not reject: when it returns, every selected record
\* has been attempted.
C26_BatchIsolatesFailures ==
    \A s \in Agents :
        LET a == agent[s]
        IN  /\ a.op = "batch" =>
                  /\ IsPrefix(a.attempted, a.batch)
                  /\ Len(a.attempted) \in {a.bi - 1, a.bi}
                  /\ \A j \in a.caught : j < a.bi
            /\ a.batchOutcome = "returned" => a.attempted = a.batch
            /\ a.batchOutcome = "threw" => a.attempted = <<>> /\ a.caught = {}

\* the first of two records failed, the second was still re-evaluated and
\* the batch returned
C26_Witness ==
    LET a == agent["s1"]
    IN  /\ a.batchOutcome = "returned"
        /\ Len(a.batch) = 2
        /\ a.caught = {1}
        /\ a.attempted = a.batch
        /\ a.evalOutcome = "returned"

\* C27: answerQuery writes nothing: no step of a run, whether the run
\* goes on to DONE, EMPTY_RESULT or FAILED or stops after that step, changes
\* the article records or any table of the store.
C27_NoPersistentWrite ==
    [][/\ store' = store
       /\ tagTable' = tagTable
       /\ tagMap' = tagMap
       /\ articles' = articles
       /\ r2Objects' = r2Objects]_vars

\* a run read two records while building the context and ended in DONE
C27_Witness ==
    /\ "DONE" \in Range(stages)
    /\ Len(contextParts) = 2
    /\ result.success
    /\ store = {1, 2}

(***************************************************************************)
(* Properties of article processing                                        *)
(***************************************************************************)
\* where a run is between the creation of its record and the UPDATE that
\* gives it its analysis
Working ==
    {"created", "rendering", "printing", "collections", "analysing", "putting",
     "storing", "updating"}

\* the runs that are past the existence check and have not returned
RunsInProgress ==
    { r \in Requests :
        durable.run[r].pc \in {"creating", "updated", "tagging"} \cup Working }

\* C28 as stated: at most one processing run of the URL is in progress at
\* a time, the URL is rendered at most once, and the record a run is
\* working on keeps the status processing until that run changes it.
C28_OneRunPerUrl ==
    /\ Cardinality(RunsInProgress) <= 1
    /\ durable.rendered <= 1
    /\ \A r \in Requests :
          durable.run[r].pc \in Working =>
              articles[durable.run[r].articleId]["status"] = "processing"

(***************************************************************************)
(* Properties of feedback                                                  *)
(***************************************************************************)
\* C29 as stated: the score of every record that has one lies in 1..100
\* (0 is a record that was never scored).
C29_ScoreInRange ==
    \A id \in DOMAIN articles :
        articles[id]["ranking"] # 0 => articles[id]["ranking"] \in 1..100

\* what the documentation says a feedback of this kind does to a record
Documented(row, kind) ==
    CASE kind = "upvote" -> [row EXCEPT !["ranking"] = MinOf(100, @ + 10)]
      [] kind = "downvote" -> [row EXCEPT !["ranking"] = MaxOf(1, @ - 10)]
      [] kind = "saved" -> [row EXCEPT !["ranking"] = MinOf(100, @ + 5),
                                       !["status"] = "read"]
      [] kind = "archived" -> [row EXCEPT !["status"] = "archived"]
      [] OTHER -> row

\* C30 as stated: a feedback event without a manual score, applied by the
\* endpoint or by HumanInTheLoopAgent, changes the record as documented:
\* upvote +10 capped at 100, downvote -10 floored at 1, saved +5 capped at
\* 100 and status read, archived status archived, tag events nothing.
C30_FeedbackAsDocumented ==
    [][/\ \A w \in Writers :
            LET f == handlers[w]
            IN  (/\ f.fn = "endpoint" /\ f.pc = "update" /\ f.body.score = 0
                 /\ handlers'[w].pc # "update" /\ handlers'[w].outcome # "threw")
                => articles'[f.body.article_id]
                      = Documented(articles[f.body.article_id], f.body.feedback_type)
       /\ \A s \in Agents :
            LET a == agent[s]
            IN  (/\ a.op = "feedback" /\ a.pc = "updating"
                 /\ a.feedback.manualRanking = <<>>
                 /\ agent'[s].pc # "updating" /\ agent'[s].saved # "false")
                => articles'[a.feedback.articleId]
                      = Documented(articles[a.feedback.articleId],
                                   a.feedback.feedbackType)]_vars

\* C31: the feedback log is append-only: every step keeps each recorded
\* event (record id, kind and payload) at its place, and the log never
\* shrinks.
C31_FeedbackLogAppendOnly ==
    [][/\ Len(feedbackLog') >= Len(feedbackLog)
       /\ \A i \in 1..Len(feedbackLog) : feedbackLog'[i] = feedbackLog[i]]_vars

\* two different events are in the log, the second recorded after the first
C31_Witness ==
    /\ Len(feedbackLog) = 2
    /\ feedbackLog[1] # feedbackLog[2]
    /\ feedbackLog[1].feedback_data.shape # feedbackLog[2].feedback_data.shape

(***************************************************************************)
(* Properties of the two-stage synthesis                                   *)
(***************************************************************************)
\* C32 as stated: the synthesis recovers from a reasoning failure: when its
\* reasoning stage has failed, the structuring stage still runs.
C32_StructuringAfterFailedReasoning ==
    (result.returned /\ ReasoningExhausted) => calls.structuring > 0

\* C33: with retry count n = defaultRetries, the synthesis attempts
\* reasoning at most n times and structuring at most n times, structuring
\* only after a reasoning attempt succeeded, 2n inference calls at most;
\* once structuring has begun no further reasoning call is made.
C33_StagesRetryIndependently ==
    /\ [](/\ calls.reasoning <= defaultRetries
          /\ calls.structuring <= defaultRetries
          /\ calls.structuring > 0 => calls.reasoned
          /\ calls.reasoning + calls.structuring <= 2 * defaultRetries)
    /\ [][calls.structuring > 0 => calls'.reasoning = calls.reasoning]_vars

\* reasoning succeeded at its second attempt, then structuring used up its
\* three attempts and the synthesis failed after five calls
C33_Witness ==
    /\ result.returned /\ ~result.success
    /\ defaultRetries = DefaultRetryCount
    /\ calls.reasoning = 2 /\ calls.reasoned
    /\ calls.structuring = DefaultRetryCount /\ ~calls.structured

\* C34: the stricter criteria depend on the upvote ratio only (0.3 when
\* there are no articles): the minimum depth is 80 when the ratio is above
\* 0.5 and 60 otherwise, original insight is required exactly when the
\* ratio is above 0.4; a ratio of exactly 0.5 gives 60 and of exactly 0.4
\* gives no such requirement.
C34_CriteriaFromUpvoteRatio ==
    \A s \in Agents :
        agent[s].criteria # NoCriteria =>
            LET total == agent[s].context.totalArticles
                upvoted == agent[s].context.upvotedArticles
                c == agent[s].criteria
            IN  /\ total = 0 => c.minimumDepth = 60 /\ ~c.requiresOriginalInsight
                /\ (total > 0 /\ 2 * upvoted > total) => c.minimumDepth = 80
                /\ (total > 0 /\ 2 * upvoted <= total) => c.minimumDepth = 60
                /\ (total > 0 /\ 5 * upvoted > 2 * total) => c.requiresOriginalInsight
                /\ (total > 0 /\ 5 * upvoted <= 2 * total) => ~c.requiresOriginalInsight
                /\ c = buildStricterCriteria(
                          FeedbackPattern(total, upvoted, 0))

\* two upvoted articles of five, a ratio of exactly 0.4: depth 60 and no
\* original insight required
C34_Witness ==
    /\ agent["s1"].context.totalArticles = 5
    /\ agent["s1"].context.upvotedArticles = 2
    /\ agent["s1"].context.downvotedArticles = 1
    /\ agent["s1"].criteria.minimumDepth = 60
    /\ agent["s1"].criteria.checkForClickbait
    /\ ~agent["s1"].criteria.requiresOriginalInsight

(***************************************************************************)
(* Properties of saveArticleAnalysis as a whole                            *)
(***************************************************************************)
\* C35 as stated: saveArticleAnalysis is a transactional write: when it has
\* returned false the article's row is what it was when the call began and
\* the call's R2 reference is not stored by it; when it has returned true
\* the row is the updated one.
C35_SaveIsAllOrNothing ==
    \A s \in Agents :
        LET a == agent[s]
        IN  /\ (a.saved = "false" /\ a.data.id # 0) => articles[a.data.id] = a.rowBefore
            /\ a.saved = "true" =>
                  articles[a.data.id] = saveArticleAnalysisUpdate(a.rowBefore, a.data)

(***************************************************************************)
(* Termination of answerQuery                                              *)
(***************************************************************************)
\* C36: when every inference, retrieval and store call eventually returns
\* or fails, every answerQuery run that has started eventually ends, in
\* DONE, EMPTY_RESULT or FAILED.
C36_AnswerQueryTerminates ==
    RunStarted ~> (RunEnded /\ Last(stages) \in {"DONE", "EMPTY_RESULT", "FAILED"})

\* a run that used every attempt of every inference stage it went through
\* (the optimizer's three, the embedding, reasoning and structuring) has ended
C36_Witness ==
    /\ RunEnded /\ Last(stages) = "FAILED"
    /\ defaultRetries = DefaultRetryCount
    /\ ~calls.optimized
    /\ calls.reasoning = DefaultRetryCount /\ calls.reasoned
    /\ calls.structuring = DefaultRetryCount /\ ~calls.structured
    /\ Len(retrievedArticles) = MaxRefs

(***************************************************************************)
(* Properties of the queue consumer                                        *)
(***************************************************************************)
\* C37 as stated: a message is acknowledged only when the article of its
\* URL has been fully processed: at the step that acknowledges it, the
\* URL's record exists and is in neither status error nor processing.
C37_AckOnlyWhenProcessed ==
    [][\A r \in Requests :
          (durable'.run[r].pc = "acked" /\ durable.run[r].pc # "acked") =>
              /\ checkExistingArticle(articles) # 0
              /\ articles[checkExistingArticle(articles)]["status"]
                    \notin {"error", "processing"}]_vars

(***************************************************************************)
(* Properties of re-evaluation as a whole                                  *)
(***************************************************************************)
\* C38: re-evaluation never raises a stored score: after reEvaluateArticle
\* has returned, the record's score is at most what it was when the call
\* began, and when the result says shouldDowngrade = false the record's
\* score, label and status are what they were.
C38_ReEvaluationNeverRaises ==
    \A s \in Agents :
        LET a == agent[s]
        IN  ReEvaluated(a) =>
               /\ articles[a.articleId]["ranking"] <= a.rowBefore["ranking"]
               /\ ~a.reEval.shouldDowngrade => articles[a.articleId] = a.rowBefore

\* the model scored a record of 90 in status read at 95: the result says no
\* downgrade and the record is untouched
C38_Witness ==
    LET a == agent["s1"]
    IN  /\ ReEvaluated(a)
        /\ a.response.success /\ a.response.ranking = 95
        /\ a.rowBefore = ScoredRow(90, "High ROI", "read")
        /\ ~a.reEval.shouldDowngrade
        /\ articles[a.articleId] = ScoredRow(90, "High ROI", "read")

(***************************************************************************)
(* Properties of query optimization                                        *)
(***************************************************************************)
\* C39 as stated: for a non-empty question the query passed to retrieval
\* is non-empty; an optimizer output that is empty once trimmed and
\* stripped of quotes gives way to the raw question.
C39_RetrievalQueryNonEmpty ==
    \A k \in 1..Len(searchCalls) :
        userQuestion # <<>> => searchCalls[k].query # <<>>

(***************************************************************************)
(* Properties of overlapping reconcile calls in one session                *)
(***************************************************************************)
\* C40 as stated: when two overlapping reconcile calls of one session both
\* suggest the name "a", which neither the registry nor the table held
\* before, neither call fails, one tag exists for the name and the
\* session's registry has one entry for it.
C40_OverlappingCallsCreateOnce ==
    \A s, t \in Agents :
        LET a == agent[s]
            b == agent[t]
            named(rows) == { k \in 1..Len(rows) : toLowerCase(rows[k].name) = <<"a">> }
        IN  (/\ s # t
             /\ a.op = "idle" /\ b.op = "idle"
             /\ a.suggestedTags = <<<<"a">>>> /\ b.suggestedTags = <<<<"a">>>>
             /\ a.outcome \in {"returned", "createThrew"}
             /\ b.outcome \in {"returned", "createThrew"}
             /\ \A k \in named(tagTable) :
                   tagTable[k].name \in Range(a.created) \cup Range(b.created))
            => /\ a.outcome = "returned" /\ b.outcome = "returned"
               /\ Cardinality(named(tagTable)) <= 1
               /\ Cardinality(named(a.tagRegistry)) <= 1

====
